------------------------ MODULE EmailDispatch_proofs ------------------------
(***************************************************************************)
(* Proofs about the rows, for any number of rows, of batches, of webhook   *)
(* requests and of faults.                                                 *)
(*                                                                         *)
(* Whatever overlaps, dies or crawls: the provider takes an e-mail at most *)
(* once.  NeverSentTwice is not inductive.  What protects a row is that    *)
(* the claim gives it to one batch (OneHolder) that nobody takes out of    *)
(* its hands into PENDING (Held: a held row waits for no batch), and that  *)
(* the holder never writes PENDING once the e-mail may have left           *)
(* (LeftWithHolder), so that a row whose e-mail left is not claimed again  *)
(* (LeftNeverWaits).  The lock plays no part.  The bound on attempts       *)
(* follows in the same way: what waits, or is held or listed, has an       *)
(* attempt left (Counted).                                                 *)
(*                                                                         *)
(* While no row goes stale under a live batch (Quick): the rows behave as  *)
(* EmailContract says.                                                     *)
(*                                                                         *)
(* While batches do not overlap (OneBatch): calls are bounded, offers keep *)
(* one another back and the first feedback waits for the welcome.  Batches *)
(* do not overlap while no TTL passes under one and no two read the lock   *)
(* at once, by the invariant of LockOverlap_proofs.                        *)
(***************************************************************************)
EXTENDS EmailDispatch, TLAPS

Waiting == {"absent", "PENDING"}
Holding == {"decide", "sending", "write"}
MayHaveLeft == {"sent", "unknown", "recoverUnknown"}

Types ==
  /\ status \in [Dispatches -> Statuses]
  /\ accepted \in [Dispatches -> Nat]
  /\ row \in [Workers -> Dispatches \cup {NoDispatch}]
  /\ plan \in [Workers -> Plans]
  /\ step \in [Workers -> Steps]
  /\ phase \in [Workers -> Lock!Phases]
  /\ todo \in [Workers -> SUBSET Dispatches]
  /\ due \subseteq Dispatches

Held == \A w \in Workers :
  /\ step[w] \in Holding <=> row[w] \in Dispatches
  /\ row[w] \in Dispatches => phase[w] = "in" /\ status[row[w]] \notin Waiting

OneHolder == \A v, w \in Workers : row[v] = row[w] /\ row[v] \in Dispatches => v = w

LeftWithHolder == \A w \in Workers :
  row[w] \in Dispatches /\ accepted[row[w]] # 0 =>
    step[w] = "write" /\ plan[w] \in MayHaveLeft

LeftNeverWaits == \A d \in Dispatches : accepted[d] # 0 => status[d] \notin Waiting

SendInv ==
  Types /\ Held /\ OneHolder /\ LeftWithHolder /\ LeftNeverWaits /\ NeverSentTwice

LEMMA SendInvInit == Init => SendInv
<1> SUFFICES ASSUME Init PROVE SendInv
  OBVIOUS
<1> USE DispatchAssumption DEF DispatchAssumption, Init, Lock!Init
<1>1. Types
  BY DEF Types, Statuses, Open, Closed, Nothing, Plans, Steps, Lock!Phases
<1>2. Held /\ OneHolder /\ LeftWithHolder
  BY DEF Held, OneHolder, LeftWithHolder, Holding
<1>3. LeftNeverWaits /\ NeverSentTwice
  BY DEF LeftNeverWaits, NeverSentTwice, Nothing
<1>4. QED
  BY <1>1, <1>2, <1>3 DEF SendInv

----------------------------------------------------------------------------
(* Steps that leave every claimed row to its holder.                       *)

Quiet ==
  /\ accepted' = accepted /\ row' = row /\ plan' = plan
  /\ \A d \in Dispatches : status'[d] \in Waiting => status[d] \in Waiting
  /\ \A w \in Workers : step[w] \in Holding \/ step'[w] \in Holding => step'[w] = step[w]
  /\ \A w \in Workers : step[w] \in Holding => phase'[w] = phase[w]

LEMMA QuietKeepsInv == SendInv /\ Quiet /\ Types' => SendInv'
<1> SUFFICES ASSUME SendInv, Quiet, Types' PROVE SendInv'
  OBVIOUS
<1>1. Held'
  BY DEF SendInv, Quiet, Types, Held, Waiting
<1>2. OneHolder' /\ LeftWithHolder'
  BY DEF SendInv, Quiet, Types, Held, OneHolder, LeftWithHolder
<1>3. LeftNeverWaits' /\ NeverSentTwice'
  BY DEF SendInv, Quiet, LeftNeverWaits, NeverSentTwice
<1>4. QED
  BY <1>1, <1>2, <1>3 DEF SendInv

\* Setting a status other than PENDING, or inserting, makes no row wait that
\* did not.
LEMMA SetStatusQuiet ==
  ASSUME Types, NEW S, NEW s \in Statuses \ Waiting, SetStatus(S, s)
  PROVE  /\ status' \in [Dispatches -> Statuses]
         /\ \A d \in Dispatches : status'[d] \in Waiting => status[d] \in Waiting
  BY DEF SetStatus, Types

LEMMA InsertQuiet ==
  ASSUME Types, NEW S, Insert(S)
  PROVE  /\ status' \in [Dispatches -> Statuses]
         /\ \A d \in Dispatches : status'[d] \in Waiting => status[d] \in Waiting
         /\ due' = due
  BY DEF Insert, Types, Waiting, Statuses, Open, Closed

LEMMA EnqueueQuiet == SendInv /\ Enqueue => Quiet /\ Types'
<1> SUFFICES ASSUME SendInv, Enqueue PROVE Quiet /\ Types'
  OBVIOUS
<1>0. Types
  BY DEF SendInv
<1> USE DEF rowVars, lockVars, batchVars, webhookVars, providerVars, outside
<1>1. CASE EnqueueRelationshipForVerifiedUser
  <2>1. PICK S : Insert(S)
    BY <1>1 DEF EnqueueRelationshipForVerifiedUser
  <2>2. UNCHANGED <<lockVars, batchVars, providerVars>>
    BY <1>1 DEF EnqueueRelationshipForVerifiedUser
  <2>3. QED
    BY <1>0, <2>1, <2>2, InsertQuiet DEF Quiet, Types
<1>2. ASSUME NEW d \in Dispatches, EnqueuePurchaseConfirmation(d)
      PROVE  Quiet /\ Types'
  BY <1>0, <1>2 DEF EnqueuePurchaseConfirmation, SetStatus, Quiet, Types, Waiting, Statuses, Open
<1>3. ASSUME NEW d \in Dispatches, CheckRecentOffer(d)
      PROVE  Quiet /\ Types'
  BY <1>0, <1>3 DEF CheckRecentOffer, Quiet, Types
<1>4. ASSUME NEW d \in Dispatches, EnqueueMockInterviewOffer(d)
      PROVE  Quiet /\ Types'
  <2>1. Insert({d}) /\ UNCHANGED <<lockVars, batchVars, providerVars>>
    BY <1>4 DEF EnqueueMockInterviewOffer
  <2>2. QED
    BY <1>0, <2>1, InsertQuiet DEF Quiet, Types
<1>5. QED
  BY <1>1, <1>2, <1>3, <1>4 DEF Enqueue

LEMMA TimeQuiet == SendInv /\ Time => Quiet /\ Types'
<1> SUFFICES ASSUME SendInv, Time PROVE Quiet /\ Types'
  OBVIOUS
<1> USE DEF SendInv, Types, Quiet, rowVars, lockVars, batchVars, webhookVars, providerVars, outside
<1>1. CASE LockExpires
  BY <1>1 DEF LockExpires, Lock!Expire
<1>2. ASSUME NEW d \in Dispatches, BecomesDue(d) PROVE Quiet /\ Types'
  BY <1>2 DEF BecomesDue
<1>3. ASSUME NEW d \in Dispatches, Expires(d) PROVE Quiet /\ Types'
  BY <1>3 DEF Expires
<1>4. ASSUME NEW d \in Dispatches, GoesStale(d) PROVE Quiet /\ Types'
  BY <1>4 DEF GoesStale
<1>5. ASSUME NEW d \in Dispatches, GapElapses(d) PROVE Quiet /\ Types'
  BY <1>5 DEF GapElapses
<1>6. CASE SwitchModes
  BY <1>6 DEF SwitchModes
<1>7. QED
  BY <1>1, <1>2, <1>3, <1>4, <1>5, <1>6 DEF Time

LEMMA WebhookQuiet ==
  ASSUME SendInv, NEW h \in Handlers, Webhook(h)
  PROVE  Quiet /\ Types'
<1>0. Types
  BY DEF SendInv
<1> USE DEF rowVars, lockVars, batchVars, webhookVars, providerVars, outside
<1>1. CASE ReceiveEvent(h)
  BY <1>0, <1>1 DEF ReceiveEvent, Quiet, Types
<1>2. CASE RecordEvent(h)
  BY <1>0, <1>2 DEF RecordEvent, Quiet, Types
<1>3. CASE ApplyEvent(h)
  <2> DEFINE S == {event[h].dispatch}
             s == IF event[h].type = "delivered" THEN "SENT" ELSE "FAILED"
  <2>1. SetStatus(S, s) /\ s \in {"SENT", "FAILED"}
    BY <1>3 DEF ApplyEvent
  <2>2. s \in Statuses \ Waiting
    BY <2>1 DEF Statuses, Closed, Waiting
  <2>3. due' = due /\ UNCHANGED <<lockVars, batchVars, providerVars>>
    BY <1>3 DEF ApplyEvent
  <2> HIDE DEF S, s
  <2>4. QED
    BY <1>0, <2>1, <2>2, <2>3, SetStatusQuiet DEF Quiet, Types
<1>4. CASE DropWebhook(h)
  BY <1>0, <1>4 DEF DropWebhook, Quiet, Types
<1>5. QED
  BY <1>1, <1>2, <1>3, <1>4 DEF Webhook

----------------------------------------------------------------------------
(* Steps of a batch that holds no row.                                     *)

QuietBatch(w) ==
  \/ StartBatch(w) \/ TakeLock(w) \/ RecoverStaleProcessing(w) \/ ExpireOverdue(w)
  \/ ListDue(w) \/ EnqueueSecondCall(w) \/ BatchThrows(w) \/ DropLock(w)

\* A batch that moves between steps without a row leaves the holders alone.
LEMMA MoveQuiet ==
  ASSUME SendInv, NEW w \in Workers, NEW s \in Steps \ Holding,
         step[w] \notin Holding, GoTo(w, s),
         UNCHANGED <<lockVars, row, plan, accepted>>,
         \A d \in Dispatches : status'[d] \in Waiting => status[d] \in Waiting
  PROVE  Quiet /\ step' \in [Workers -> Steps]
  BY DEF SendInv, Types, GoTo, Quiet, lockVars

LEMMA QuietBatchQuiet ==
  ASSUME SendInv, NEW w \in Workers, QuietBatch(w)
  PROVE  Quiet /\ Types'
<1>0. Types /\ Held
  BY DEF SendInv
<1> USE DEF rowVars, lockVars, batchVars, webhookVars, providerVars, outside
<1>1. CASE StartBatch(w)
  BY <1>0, <1>1 DEF StartBatch, Lock!AcquireRead, Quiet, Types, Held, Lock!Phases
<1>2. CASE TakeLock(w)
  BY <1>0, <1>2 DEF TakeLock, GoTo, Lock!AcquireUpsert, Quiet, Types, Held, Lock!Phases,
                    Steps, Holding
<1>3. CASE RecoverStaleProcessing(w)
  <2>1. PICK S : SetStatus(S, "OUTCOME_UNKNOWN")
    BY <1>3 DEF RecoverStaleProcessing
  <2>2. "OUTCOME_UNKNOWN" \in Statuses \ Waiting
    BY DEF Statuses, Waiting
  <2>3. /\ GoTo(w, "expire") /\ step[w] \notin Holding /\ "expire" \in Steps \ Holding
        /\ UNCHANGED <<lockVars, row, plan, accepted, due, todo>>
    BY <1>3 DEF RecoverStaleProcessing, At, Holding, Steps
  <2>4. QED
    BY <1>0, <2>1, <2>2, <2>3, SetStatusQuiet, MoveQuiet DEF Types, Quiet
<1>4. CASE ExpireOverdue(w)
  <2>1. PICK S : SetStatus(S, "CANCELLED")
    BY <1>4 DEF ExpireOverdue
  <2>2. "CANCELLED" \in Statuses \ Waiting
    BY DEF Statuses, Closed, Waiting
  <2>3. /\ GoTo(w, "list") /\ step[w] \notin Holding /\ "list" \in Steps \ Holding
        /\ UNCHANGED <<lockVars, row, plan, accepted, due, todo>>
    BY <1>4 DEF ExpireOverdue, At, Holding, Steps
  <2>4. QED
    BY <1>0, <2>1, <2>2, <2>3, SetStatusQuiet, MoveQuiet DEF Types, Quiet
<1>5. CASE ListDue(w)
  <2>1. /\ GoTo(w, "next") /\ step[w] \notin Holding /\ "next" \in Steps \ Holding
        /\ UNCHANGED <<rowVars, lockVars, row, plan, accepted>>
    BY <1>5 DEF ListDue, At, Holding, Steps
  <2>2. todo' \in [Workers -> SUBSET Dispatches]
    <3>1. PICK L \in SUBSET due : todo' = [todo EXCEPT ![w] = L]
      BY <1>5 DEF ListDue
    <3>2. QED
      BY <1>0, <3>1 DEF Types
  <2>3. QED
    BY <1>0, <2>1, <2>2, MoveQuiet DEF Types, Quiet
<1>6. CASE EnqueueSecondCall(w)
  <2>1. /\ GoTo(w, "next") /\ step[w] \notin Holding /\ "next" \in Steps \ Holding
        /\ UNCHANGED <<lockVars, row, plan, accepted, todo>>
    BY <1>6 DEF EnqueueSecondCall, At, Holding, Steps
  <2>2. /\ status' \in [Dispatches -> Statuses] /\ due' = due
        /\ \A d \in Dispatches : status'[d] \in Waiting => status[d] \in Waiting
    BY <1>0, <1>6, InsertQuiet DEF EnqueueSecondCall, Types
  <2>3. QED
    BY <1>0, <2>1, <2>2, MoveQuiet DEF Types, Quiet
<1>7. CASE BatchThrows(w)
  <2>1. /\ GoTo(w, "next") /\ step[w] \notin Holding /\ "next" \in Steps \ Holding
        /\ UNCHANGED <<rowVars, lockVars, row, plan, accepted>>
    BY <1>7 DEF BatchThrows, At, Holding, Steps
  <2>2. todo' \in [Workers -> SUBSET Dispatches]
    BY <1>0, <1>7 DEF BatchThrows, Types
  <2>3. QED
    BY <1>0, <2>1, <2>2, MoveQuiet DEF Types, Quiet
<1>8. CASE DropLock(w)
  BY <1>0, <1>8 DEF DropLock, Lock!ReleaseDelete, Quiet, Types, Held, Lock!Phases
<1>9. QED
  BY <1>1, <1>2, <1>3, <1>4, <1>5, <1>6, <1>7, <1>8 DEF QuietBatch

----------------------------------------------------------------------------
(* Steps that take, handle or let go of a row.                             *)

\* The holders other than w, and their rows, are as they were.
OthersKept(w) ==
  /\ \A v \in Workers \ {w} :
       /\ row'[v] = row[v] /\ plan'[v] = plan[v]
       /\ step'[v] = step[v] /\ phase'[v] = phase[v]
  /\ \A d \in Dispatches : row[w] # d =>
       /\ accepted'[d] = accepted[d]
       /\ status'[d] \in Waiting => status[d] \in Waiting

\* What w does to its own row is enough to keep the invariant.
OwnRowSafe(w) ==
  /\ step'[w] \in Holding <=> row'[w] \in Dispatches
  /\ row'[w] \in Dispatches =>
       /\ phase'[w] = "in" /\ status'[row'[w]] \notin Waiting
       /\ accepted'[row'[w]] # 0 => step'[w] = "write" /\ plan'[w] \in MayHaveLeft
  /\ row[w] \in Dispatches =>
       /\ accepted'[row[w]] <= 1
       /\ accepted'[row[w]] # 0 => status'[row[w]] \notin Waiting

LEMMA HolderKeepsInv ==
  ASSUME SendInv, NEW w \in Workers, Types', OthersKept(w), OwnRowSafe(w),
         row'[w] = row[w] \/ row'[w] \notin Dispatches
           \/ \A v \in Workers : row[v] # row'[w]
  PROVE  SendInv'
<1> USE DEF SendInv, Types, OthersKept, OwnRowSafe
<1>1. \A v \in Workers \ {w} : row[v] \in Dispatches => row[v] # row[w]
  BY DEF OneHolder
<1>2. Held'
  BY <1>1 DEF Held
<1>3. OneHolder'
  BY <1>1 DEF OneHolder
<1>4. LeftWithHolder'
  BY <1>1 DEF LeftWithHolder
<1>5. LeftNeverWaits'
  BY DEF LeftNeverWaits
<1>6. NeverSentTwice'
  BY DEF NeverSentTwice
<1>7. QED
  BY <1>2, <1>3, <1>4, <1>5, <1>6

LEMMA ClaimKeepsInv == ASSUME SendInv, NEW w \in Workers, Claim(w) PROVE SendInv'
<1>0. Types
  BY DEF SendInv
<1>1. PICK d \in todo[w] : 
        /\ todo' = [todo EXCEPT ![w] = @ \ {d}]
        /\ IF Claimable(d)
           THEN /\ SetStatus({d}, "PROCESSING")
                /\ row' = [row EXCEPT ![w] = d]
                /\ GoTo(w, "decide")
           ELSE UNCHANGED <<status, stale, row, step>>
  BY DEF Claim
<1>2. /\ At(w, "next") /\ step[w] \notin Holding
      /\ plan' = plan /\ accepted' = accepted /\ phase' = phase /\ due' = due
  BY DEF Claim, At, Holding, lockVars, providerVars
<1>3. d \in Dispatches /\ todo' \in [Workers -> SUBSET Dispatches]
  BY <1>0, <1>1 DEF Types
<1>4. CASE Claimable(d)
  <2>1. status[d] = "PENDING" /\ accepted[d] = 0 /\ \A v \in Workers : row[v] # d
    BY <1>0, <1>3, <1>4 DEF Claimable, SendInv, Held, LeftNeverWaits, Waiting, Types
  <2>2. /\ status' = [status EXCEPT ![d] = "PROCESSING"]
        /\ row' = [row EXCEPT ![w] = d] /\ step' = [step EXCEPT ![w] = "decide"]
    BY <1>0, <1>1, <1>4 DEF SetStatus, GoTo, Types
  <2>3. Types'
    BY <1>0, <1>2, <1>3, <2>2 DEF Types, Statuses, Open, Steps
  <2>4. row[w] \notin Dispatches
    BY <1>2 DEF SendInv, Held
  <2>5. OthersKept(w)
    BY <1>0, <1>2, <1>3, <2>2 DEF OthersKept, Types, Waiting
  <2>6. OwnRowSafe(w)
    BY <1>0, <1>2, <1>3, <2>1, <2>2, <2>4 DEF OwnRowSafe, Types, At, Holding, Waiting
  <2>7. row'[w] = d
    BY <1>0, <2>2 DEF Types
  <2>8. QED
    BY <2>1, <2>3, <2>5, <2>6, <2>7, HolderKeepsInv
<1>5. CASE ~Claimable(d)
  <2>1. Quiet /\ Types'
    BY <1>0, <1>1, <1>2, <1>3, <1>5 DEF Quiet, Types
  <2>2. QED
    BY <2>1, QuietKeepsInv
<1>6. QED
  BY <1>4, <1>5

LEMMA DecideKeepsInv == ASSUME SendInv, NEW w \in Workers, Decide(w) PROVE SendInv'
<1>0. Types
  BY DEF SendInv
<1>1. PICK p \in Plans : 
        /\ plan' = [plan EXCEPT ![w] = p]
        /\ step' = [step EXCEPT ![w] = IF p = "send" THEN "sending" ELSE "write"]
  <2>1. Decisions(w) \subseteq Plans
    BY DispatchAssumption
       DEF DispatchAssumption, Decisions, Deferral, Plans, BeforeSend, AfterSend, Recovery
  <2>2. QED
    BY <2>1 DEF Decide, GoTo
<1>2. /\ step[w] = "decide" /\ phase' = phase
      /\ UNCHANGED <<status, due, accepted, row, todo>>
  BY DEF Decide, At, rowVars, lockVars, providerVars
<1>3. row[w] \in Dispatches /\ phase[w] = "in" /\ accepted[row[w]] = 0
        /\ status[row[w]] \notin Waiting
  BY <1>0, <1>2 DEF SendInv, Held, Holding, LeftWithHolder, Types
<1>4. Types'
  BY <1>0, <1>1, <1>2 DEF Types, Steps
<1>5. OthersKept(w)
  BY <1>0, <1>1, <1>2 DEF OthersKept, Types
<1>6. OwnRowSafe(w)
  BY <1>0, <1>1, <1>2, <1>3 DEF OwnRowSafe, Types, Holding
<1>7. QED
  BY <1>2, <1>4, <1>5, <1>6, HolderKeepsInv

LEMMA DeliverKeepsInv == ASSUME SendInv, NEW w \in Workers, Deliver(w) PROVE SendInv'
<1>0. Types
  BY DEF SendInv
<1> DEFINE d == row[w]
<1>1. /\ step[w] = "sending" /\ phase' = phase /\ step' = [step EXCEPT ![w] = "write"]
      /\ UNCHANGED <<status, due, row, todo>>
  BY DEF Deliver, At, GoTo, rowVars, lockVars
<1>2. d \in Dispatches /\ phase[w] = "in" /\ accepted[d] = 0 /\ status[d] \notin Waiting
  BY <1>0, <1>1 DEF SendInv, Held, Holding, LeftWithHolder, Types
<1> HIDE DEF d
<1>3. CASE /\ accepted' = [accepted EXCEPT ![d] = @ + 1]
           /\ \E p \in MayHaveLeft : plan' = [plan EXCEPT ![w] = p]
  <2>1. PICK p \in MayHaveLeft : plan' = [plan EXCEPT ![w] = p]
    BY <1>3
  <2>2. p \in Plans
    BY DEF MayHaveLeft, Plans, AfterSend, Recovery
  <2>3. /\ accepted' \in [Dispatches -> Nat] /\ accepted'[d] = 1
        /\ \A e \in Dispatches : e # d => accepted'[e] = accepted[e]
    BY <1>0, <1>2, <1>3 DEF Types
  <2>4. Types'
    BY <1>0, <1>1, <2>1, <2>2, <2>3 DEF Types, Steps
  <2>5. OthersKept(w)
    BY <1>0, <1>1, <2>1, <2>3 DEF OthersKept, Types, d
  <2>6. OwnRowSafe(w)
    BY <1>0, <1>1, <1>2, <2>1, <2>3 DEF OwnRowSafe, Types, Holding, d
  <2>7. QED
    BY <1>1, <2>4, <2>5, <2>6, HolderKeepsInv
<1>4. CASE /\ accepted' = accepted
           /\ \E p \in {"rejected", "unknown", "recoverUnknown"} :
                plan' = [plan EXCEPT ![w] = p]
  <2>1. PICK p \in {"rejected", "unknown", "recoverUnknown"} :
          plan' = [plan EXCEPT ![w] = p]
    BY <1>4
  <2>2. p \in Plans
    BY DEF Plans, AfterSend, Recovery
  <2>3. Types'
    BY <1>0, <1>1, <1>4, <2>1, <2>2 DEF Types, Steps
  <2>4. OthersKept(w)
    BY <1>0, <1>1, <1>4, <2>1 DEF OthersKept, Types
  <2>5. OwnRowSafe(w)
    BY <1>0, <1>1, <1>2, <1>4 DEF OwnRowSafe, Types, Holding, d
  <2>6. QED
    BY <1>1, <2>3, <2>4, <2>5, HolderKeepsInv
<1>5. QED
  BY <1>3, <1>4 DEF Deliver, MayHaveLeft, d

LEMMA WriteKeepsInv ==
  ASSUME SendInv, NEW w \in Workers, WriteStatus(w) \/ RetryOrFail(w)
  PROVE  SendInv'
<1>0. Types
  BY DEF SendInv
<1> DEFINE d == row[w]
<1>1. /\ step[w] = "write" /\ phase' = phase /\ todo' = todo /\ accepted' = accepted
      /\ row' = [row EXCEPT ![w] = NoDispatch] /\ plan' = [plan EXCEPT ![w] = "none"]
      /\ due' \subseteq due
  BY DEF WriteStatus, RetryOrFail, At, RowDone, lockVars, providerVars
<1>2. PICK s \in {"next", "second"} : step' = [step EXCEPT ![w] = s]
  BY DEF WriteStatus, RetryOrFail, GoTo
<1>3. d \in Dispatches /\ accepted[d] <= 1 /\ (accepted[d] # 0 => plan[w] \in MayHaveLeft)
  BY <1>0, <1>1 DEF SendInv, Held, Holding, LeftWithHolder, NeverSentTwice, Types
<1>4. PICK t \in Statuses :
        /\ status' = [status EXCEPT ![d] = t]
        /\ plan[w] \in MayHaveLeft => t \notin Waiting
  <2>1. CASE WriteStatus(w)
    <3>1. SetStatus({d}, Written[plan[w]]) /\ plan[w] \in DOMAIN Written
      BY <2>1 DEF WriteStatus
    <3>2. Written[plan[w]] \in Statuses
      BY <3>1 DEF Written, Statuses, Open, Closed
    <3>3. plan[w] \in MayHaveLeft => Written[plan[w]] \notin Waiting
      BY DEF Written, MayHaveLeft, Waiting
    <3>4. status' = [status EXCEPT ![d] = Written[plan[w]]]
      BY <1>0, <3>1 DEF SetStatus, Types
    <3>5. QED
      BY <3>2, <3>3, <3>4
  <2>2. CASE RetryOrFail(w)
    <3>1. PICK t \in {"FAILED", "PENDING"} : SetStatus({d}, t)
      BY <2>2 DEF RetryOrFail
    <3>2. t \in Statuses /\ plan[w] \notin MayHaveLeft
      BY <2>2, <3>1 DEF RetryOrFail, MayHaveLeft, Statuses, Open, Closed
    <3>3. status' = [status EXCEPT ![d] = t]
      BY <1>0, <3>1 DEF SetStatus, Types
    <3>4. QED
      BY <3>2, <3>3
  <2>3. QED
    BY <2>1, <2>2
<1>5. NoDispatch \notin Dispatches
  BY DispatchAssumption DEF DispatchAssumption
<1> HIDE DEF d
<1>6. Types'
  BY <1>0, <1>1, <1>2, <1>3, <1>4 DEF Types, Steps, Plans
<1>7. OthersKept(w)
  BY <1>0, <1>1, <1>2, <1>3, <1>4 DEF OthersKept, Types, d
<1>8. OwnRowSafe(w)
  BY <1>0, <1>1, <1>2, <1>3, <1>4, <1>5 DEF OwnRowSafe, Types, Holding, d
<1>9. row'[w] \notin Dispatches
  BY <1>0, <1>1, <1>5 DEF Types
<1>10. QED
  BY <1>6, <1>7, <1>8, <1>9, HolderKeepsInv

LEMMA WriteThrowsKeepsInv ==
  ASSUME SendInv, NEW w \in Workers, WriteThrows(w)
  PROVE  SendInv'
<1>0. Types
  BY DEF SendInv
<1>1. /\ step[w] = "write" /\ phase' = phase
      /\ status' = status /\ due' = due /\ accepted' = accepted
  BY DEF WriteThrows, At, rowVars, lockVars, providerVars
<1>2. /\ row[w] \in Dispatches /\ phase[w] = "in" /\ status[row[w]] \notin Waiting
      /\ accepted[row[w]] <= 1 /\ (accepted[row[w]] # 0 => plan[w] \in MayHaveLeft)
  BY <1>0, <1>1 DEF SendInv, Held, Holding, LeftWithHolder, NeverSentTwice, Types
<1>3. NoDispatch \notin Dispatches
  BY DispatchAssumption DEF DispatchAssumption
<1>4. CASE plan[w] \in Recovery
  <2>1. /\ row' = [row EXCEPT ![w] = NoDispatch] /\ plan' = [plan EXCEPT ![w] = "none"]
        /\ step' = [step EXCEPT ![w] = "next"] /\ todo' = [todo EXCEPT ![w] = {}]
    BY <1>4 DEF WriteThrows, RowDone, GoTo
  <2>2. Types'
    BY <1>0, <1>1, <2>1 DEF Types, Steps, Plans
  <2>3. OthersKept(w)
    BY <1>0, <1>1, <2>1 DEF OthersKept, Types
  <2>4. row'[w] = NoDispatch /\ step'[w] = "next"
    BY <1>0, <2>1 DEF Types
  <2>5. OwnRowSafe(w)
    BY <1>1, <1>2, <1>3, <2>4 DEF OwnRowSafe, Holding
  <2>6. QED
    BY <1>3, <2>2, <2>3, <2>4, <2>5, HolderKeepsInv
<1>5. CASE plan[w] \notin Recovery
  <2>1. PICK p \in Recovery :
          /\ plan' = [plan EXCEPT ![w] = p]
          /\ plan[w] \notin BeforeSend => p = "recoverUnknown"
    BY <1>5 DEF WriteThrows, Recovery
  <2>2. row' = row /\ step' = step /\ todo' = todo
    BY <1>5 DEF WriteThrows
  <2>3. Types'
    BY <1>0, <1>1, <2>1, <2>2 DEF Types, Plans
  <2>4. OthersKept(w)
    BY <1>0, <1>1, <2>1, <2>2 DEF OthersKept, Types
  <2>5. accepted[row[w]] # 0 => p \in MayHaveLeft
    BY <1>2, <2>1 DEF MayHaveLeft, BeforeSend
  <2>6. OwnRowSafe(w)
    BY <1>0, <1>1, <1>2, <2>1, <2>2, <2>5 DEF OwnRowSafe, Types, Holding
  <2>7. QED
    BY <2>2, <2>3, <2>4, <2>6, HolderKeepsInv
<1>6. QED
  BY <1>4, <1>5

LEMMA ForgetKeepsInv ==
  ASSUME SendInv, NEW w \in Workers, EndBatch(w) \/ Die(w)
  PROVE  SendInv'
<1>0. Types
  BY DEF SendInv
<1>1. /\ row' = [row EXCEPT ![w] = NoDispatch] /\ plan' = [plan EXCEPT ![w] = "none"]
      /\ step' = [step EXCEPT ![w] = "idle"] /\ todo' = [todo EXCEPT ![w] = {}]
      /\ status' = status /\ due' = due /\ accepted' = accepted
  BY DEF EndBatch, Die, Forget, RowDone, GoTo, rowVars, providerVars
<1>2. PICK q \in Lock!Phases : phase' = [phase EXCEPT ![w] = q]
  BY DEF EndBatch, Die, Lock!ReleaseRead, Lock!Die, Lock!Phases
<1>3. NoDispatch \notin Dispatches
  BY DispatchAssumption DEF DispatchAssumption
<1>4. Types'
  BY <1>0, <1>1, <1>2 DEF Types, Steps, Plans
<1>5. OthersKept(w)
  BY <1>0, <1>1, <1>2 DEF OthersKept, Types
<1>6. row'[w] = NoDispatch /\ step'[w] = "idle"
  BY <1>0, <1>1 DEF Types
<1>7. OwnRowSafe(w)
  BY <1>0, <1>1, <1>3, <1>6 DEF OwnRowSafe, Holding, SendInv, NeverSentTwice, LeftNeverWaits
<1>8. QED
  BY <1>3, <1>4, <1>5, <1>6, <1>7, HolderKeepsInv

----------------------------------------------------------------------------
LEMMA SendInvStep == SendInv /\ [Next]_vars => SendInv'
<1> SUFFICES ASSUME SendInv, [Next]_vars PROVE SendInv'
  OBVIOUS
<1>1. CASE Enqueue
  BY <1>1, EnqueueQuiet, QuietKeepsInv
<1>2. ASSUME NEW w \in Workers, Batch(w) \/ Fault(w) PROVE SendInv'
  <2>1. CASE QuietBatch(w)
    BY <2>1, QuietBatchQuiet, QuietKeepsInv
  <2>2. CASE Claim(w)
    BY <2>2, ClaimKeepsInv
  <2>3. CASE Decide(w)
    BY <2>3, DecideKeepsInv
  <2>4. CASE Deliver(w)
    BY <2>4, DeliverKeepsInv
  <2>5. CASE WriteStatus(w) \/ RetryOrFail(w)
    BY <2>5, WriteKeepsInv
  <2>6. CASE WriteThrows(w)
    BY <2>6, WriteThrowsKeepsInv
  <2>7. CASE EndBatch(w) \/ Die(w)
    BY <2>7, ForgetKeepsInv
  <2>8. QED
    BY <1>2, <2>1, <2>2, <2>3, <2>4, <2>5, <2>6, <2>7 DEF Batch, Fault, QuietBatch
<1>3. ASSUME NEW h \in Handlers, Webhook(h) PROVE SendInv'
  BY <1>3, WebhookQuiet, QuietKeepsInv
<1>4. CASE Time
  BY <1>4, TimeQuiet, QuietKeepsInv
<1>5. CASE UNCHANGED vars
  <2>1. Quiet /\ Types'
    BY <1>5 DEF vars, Quiet, SendInv, Types
  <2>2. QED
    BY <2>1, QuietKeepsInv
<1>6. QED
  BY <1>1, <1>2, <1>3, <1>4, <1>5 DEF Next

(* No e-mail is taken twice by the provider, whatever overlaps, dies,      *)
(* throws or is slow: the claim of processOne is what guarantees it, not   *)
(* the lock.                                                               *)
THEOREM SentAtMostOnce == Spec => []NeverSentTwice
<1>1. SendInv => NeverSentTwice
  BY DEF SendInv
<1>2. QED
  BY <1>1, SendInvInit, SendInvStep, PTL DEF Spec

----------------------------------------------------------------------------
(* Types.  The attempts of a row stay within the budget although each      *)
(* batch counts from what it listed: a row that waits or is held has an    *)
(* attempt left, and so had it in every list (Counted).                    *)

Rows ==
  /\ attempts \in [Dispatches -> 0..MaxSendAttempts]
  /\ expired \subseteq Dispatches /\ recent \subseteq Dispatches
  /\ stale \subseteq Dispatches /\ checked \subseteq Dispatches

Batches ==
  /\ overdue \in [Workers -> SUBSET Dispatches]
  /\ seen \in [Workers -> [Dispatches -> 0..(MaxSendAttempts - 1)]]

Hooks ==
  /\ recorded \subseteq Events
  /\ webhook \in [Handlers -> {"idle", "matched", "unmatched", "apply"}]
  /\ event \in [Handlers -> Events \cup {NoEvent}]
  /\ \A h \in Handlers : webhook[h] # "idle" => event[h] \in Events

Outside ==
  /\ calls \in [Dispatches -> Nat] /\ fresh \subseteq Dispatches
  /\ enabled \in Modes
  /\ faults \in 0..MaxFaults /\ slow \in 0..MaxSlow /\ dropped \in 0..MaxDropped

LockTypes ==
  /\ lock \in Workers \cup {NoRow, NoBatch} /\ live \in BOOLEAN /\ deaths \in 0..MaxDeaths

Counted ==
  /\ \A d \in Dispatches : status[d] \in Waiting => attempts[d] < MaxSendAttempts
  /\ \A w \in Workers : row[w] \in Dispatches => attempts[row[w]] < MaxSendAttempts

TypeInv == Rows /\ Batches /\ Hooks /\ Outside /\ LockTypes /\ Counted

LEMMA TypeInvInit == Init => TypeInv
<1> SUFFICES ASSUME Init PROVE TypeInv
  OBVIOUS
<1> USE DispatchAssumption DEF DispatchAssumption, Init, Lock!Init
<1>1. Nothing \in [Dispatches -> 0..(MaxSendAttempts - 1)]
  BY DEF Nothing
<1>2. Batches
  <2>1. /\ overdue = [w \in Workers |-> {}] /\ seen = [w \in Workers |-> Nothing]
    OBVIOUS
  <2>2. QED
    BY <1>1, <2>1 DEF Batches
<1>3. Rows /\ Outside /\ LockTypes
  <2>1. /\ Nothing \in [Dispatches -> 0..MaxSendAttempts] /\ Nothing \in [Dispatches -> Nat]
    BY <1>1
  <2>2. Rows /\ Outside
    BY <2>1 DEF Rows, Outside
  <2>3. live \in BOOLEAN
    BY Zenon
  <2>4. LockTypes
    BY <2>3 DEF LockTypes
  <2>5. QED
    BY <2>2, <2>4
<1>4. Hooks /\ Counted
  BY DEF Hooks, Counted, Nothing
<1>5. QED
  BY <1>2, <1>3, <1>4 DEF TypeInv

\* Steps that count no attempt and let no row wait that is used up.
LEMMA CountedKept ==
  ASSUME SendInv, Counted, attempts' = attempts,
         \A d \in Dispatches : status'[d] \in Waiting =>
           status[d] \in Waiting \/ \E w \in Workers : row[w] = d,
         \A w \in Workers : row'[w] \in Dispatches =>
           row'[w] = row[w] \/ status[row'[w]] \in Waiting
  PROVE  Counted'
BY DEF Counted

LEMMA EnqueueTypes ==
  ASSUME SendInv, TypeInv, Enqueue
  PROVE  TypeInv'
<1> USE DEF TypeInv, rowVars, lockVars, batchVars, webhookVars, providerVars, outside
<1>1. /\ attempts' = attempts /\ row' = row
      /\ \A d \in Dispatches : status'[d] \in Waiting => status[d] \in Waiting
  BY EnqueueQuiet DEF Enqueue, EnqueueRelationshipForVerifiedUser, Insert,
     EnqueuePurchaseConfirmation, CheckRecentOffer, EnqueueMockInterviewOffer, Quiet
<1>2. Counted'
  BY <1>1, CountedKept
<1>3. Rows'
  BY <1>1 DEF Rows, Enqueue, EnqueueRelationshipForVerifiedUser, Insert, SetStatus,
     EnqueuePurchaseConfirmation, CheckRecentOffer, EnqueueMockInterviewOffer
<1>4. /\ UNCHANGED <<overdue, seen, webhook, event, calls, fresh, outside, lock, live, deaths>>
      /\ recorded' = recorded
  BY DEF Enqueue, EnqueueRelationshipForVerifiedUser, Insert,
     EnqueuePurchaseConfirmation, CheckRecentOffer, EnqueueMockInterviewOffer
<1>5. Batches' /\ Hooks' /\ Outside' /\ LockTypes'
  BY <1>4 DEF Batches, Hooks, Outside, LockTypes
<1>6. QED
  BY <1>2, <1>3, <1>5

LEMMA TimeTypes ==
  ASSUME SendInv, TypeInv, Time
  PROVE  TypeInv'
<1> USE DEF TypeInv, rowVars, lockVars, batchVars, webhookVars, providerVars, outside
<1>1. Quiet /\ attempts' = attempts
  BY TimeQuiet DEF Time, LockExpires, SwitchModes, BecomesDue, Expires, GoesStale, GapElapses
<1>2. Counted'
  BY <1>1, CountedKept DEF Quiet
<1>3. UNCHANGED <<overdue, seen, webhook, event, recorded>>
  BY DEF Time, LockExpires, SwitchModes, BecomesDue, Expires, GoesStale, GapElapses
<1>4. Batches' /\ Hooks'
  BY <1>3 DEF Batches, Hooks
<1>5. Rows'
  BY DEF Rows, Time, LockExpires, SwitchModes, BecomesDue, Expires, GoesStale, GapElapses
<1>6. Outside'
  BY DispatchAssumption
     DEF DispatchAssumption, Outside, Time, LockExpires, SwitchModes, BecomesDue, Expires, GoesStale, GapElapses
<1>7. LockTypes'
  BY DEF LockTypes, Time, LockExpires, SwitchModes, Lock!Expire, BecomesDue, Expires, GoesStale, GapElapses
<1>8. QED
  BY <1>2, <1>4, <1>5, <1>6, <1>7

LEMMA WebhookTypes ==
  ASSUME SendInv, TypeInv, NEW h \in Handlers, Webhook(h)
  PROVE  TypeInv'
<1> USE DEF TypeInv, rowVars, lockVars, batchVars, webhookVars, providerVars, outside
<1>1. Quiet /\ attempts' = attempts
  BY WebhookQuiet DEF Webhook, ReceiveEvent, RecordEvent, ApplyEvent, DropWebhook
<1>2. Counted'
  BY <1>1, CountedKept DEF Quiet
<1>3. Hooks'
  <2> USE DEF Hooks
  <2>1. CASE ReceiveEvent(h)
    BY <2>1 DEF ReceiveEvent
  <2>2. CASE RecordEvent(h)
    BY <2>2 DEF RecordEvent, FinishWebhook
  <2>3. CASE ApplyEvent(h)
    BY <2>3 DEF ApplyEvent, FinishWebhook
  <2>4. CASE DropWebhook(h)
    BY <2>4 DEF DropWebhook, FinishWebhook
  <2>5. QED
    BY <2>1, <2>2, <2>3, <2>4 DEF Webhook
<1>4. /\ UNCHANGED <<overdue, seen, calls, fresh, enabled, faults, slow, lock, live, deaths>>
      /\ dropped' \in 0..MaxDropped
  BY DispatchAssumption DEF DispatchAssumption, Outside, Webhook, ReceiveEvent, RecordEvent, ApplyEvent, DropWebhook
<1>5. Batches' /\ Outside' /\ LockTypes'
  BY <1>4 DEF Batches, Outside, LockTypes
<1>6. Rows'
  BY <1>1 DEF Rows, Webhook, ReceiveEvent, RecordEvent, ApplyEvent, DropWebhook, SetStatus, Stamped
<1>7. QED
  BY <1>2, <1>3, <1>5, <1>6

\* What a batch does to the rows and to nothing outside.
LEMMA QuietBatchTypes ==
  ASSUME SendInv, TypeInv, NEW w \in Workers, QuietBatch(w)
  PROVE  TypeInv'
<1> USE DEF TypeInv, rowVars, lockVars, batchVars, webhookVars, providerVars, outside
<1>1. /\ attempts' = attempts /\ recent' = recent /\ expired' = expired
      /\ UNCHANGED <<recorded, checked, webhook, event, calls, fresh, enabled, slow, dropped>>
  BY DEF QuietBatch, StartBatch, TakeLock, RecoverStaleProcessing, ExpireOverdue, ListDue,
     EnqueueSecondCall, Insert, BatchThrows, DropLock
<1>2. Counted'
  BY <1>1, QuietBatchQuiet, CountedKept DEF Quiet
<1>3. stale' \subseteq stale
  BY DEF QuietBatch, StartBatch, TakeLock, RecoverStaleProcessing, ExpireOverdue, ListDue,
     EnqueueSecondCall, Insert, BatchThrows, DropLock, SetStatus
<1>4. Rows' /\ Hooks'
  BY <1>1, <1>3 DEF Rows, Hooks
<1>5. Outside'
  <2>1. faults' \in 0..MaxFaults
    BY DispatchAssumption
       DEF DispatchAssumption, Outside, QuietBatch, StartBatch, TakeLock, RecoverStaleProcessing,
           ExpireOverdue, ListDue, EnqueueSecondCall, BatchThrows, DropLock
  <2>2. QED
    BY <1>1, <2>1 DEF Outside
<1>6. LockTypes'
  BY DEF LockTypes, QuietBatch, StartBatch, Lock!AcquireRead, TakeLock, Lock!AcquireUpsert,
         RecoverStaleProcessing, ExpireOverdue, ListDue, EnqueueSecondCall, BatchThrows, DropLock,
         Lock!ReleaseDelete
<1>7. Batches'
  <2>1. CASE StartBatch(w)
    BY <2>1 DEF StartBatch, Batches, Rows
  <2>2. CASE ListDue(w)
    <3>1. PICK L \in SUBSET due :
            /\ \A d \in L : status[d] = "PENDING"
            /\ seen' = [seen EXCEPT ![w] = [d \in Dispatches |-> IF d \in L THEN attempts[d] ELSE 0]]
      BY <2>2 DEF ListDue
    <3>2. [d \in Dispatches |-> IF d \in L THEN attempts[d] ELSE 0]
            \in [Dispatches -> 0..(MaxSendAttempts - 1)]
      BY <3>1, DispatchAssumption DEF DispatchAssumption, Counted, Rows, Waiting
    <3>3. overdue' = overdue
      BY <2>2 DEF ListDue
    <3>4. QED
      BY <3>1, <3>2, <3>3 DEF Batches
  <2>3. CASE ~StartBatch(w) /\ ~ListDue(w)
    <3>1. overdue' = overdue /\ seen' = seen
      BY <2>3 DEF QuietBatch, TakeLock, RecoverStaleProcessing, ExpireOverdue,
         EnqueueSecondCall, BatchThrows, DropLock
    <3>2. QED
      BY <3>1 DEF Batches
  <2>4. QED
    BY <2>1, <2>2, <2>3
<1>8. QED
  BY <1>2, <1>4, <1>5, <1>6, <1>7

\* Taking a row, deciding on it and handing it over count nothing yet.
LEMMA HandlingTypes ==
  ASSUME SendInv, TypeInv, NEW w \in Workers, Claim(w) \/ Decide(w) \/ Deliver(w)
  PROVE  TypeInv'
<1> USE DEF TypeInv, rowVars, lockVars, batchVars, webhookVars, providerVars, outside
<1>1. /\ attempts' = attempts
      /\ UNCHANGED <<due, expired, recent, recorded, checked, webhook, event, outside,
                     lockVars, overdue, seen>>
      /\ stale' \subseteq stale
  BY DEF Claim, Decide, Deliver, SetStatus
<1>2. Rows' /\ Hooks' /\ Batches' /\ LockTypes'
  BY <1>1 DEF Rows, Hooks, Batches, LockTypes
<1>3. Counted'
  <2>1. CASE Claim(w)
    <3>1. PICK d \in todo[w] :
            IF Claimable(d) THEN SetStatus({d}, "PROCESSING") /\ row' = [row EXCEPT ![w] = d]
                            ELSE UNCHANGED <<status, row>>
      BY <2>1 DEF Claim
    <3>2. \A e \in Dispatches : status'[e] \in Waiting => status[e] \in Waiting
      BY <3>1 DEF SetStatus, SendInv, Types, Waiting
    <3>3. \A v \in Workers : row'[v] \in Dispatches =>
            row'[v] = row[v] \/ status[row'[v]] \in Waiting
      BY <3>1 DEF Claimable, Waiting, SendInv, Types
    <3>4. QED
      BY <1>1, <3>2, <3>3, CountedKept DEF TypeInv
  <2>2. CASE Decide(w) \/ Deliver(w)
    <3>1. status' = status /\ row' = row
      BY <2>2 DEF Decide, Deliver
    <3>2. QED
      BY <1>1, <3>1 DEF Counted
  <2>3. QED
    BY <2>1, <2>2
<1>4. calls' \in [Dispatches -> Nat] /\ fresh' \subseteq Dispatches
  <2>1. CASE Deliver(w)
    <3>1. row[w] \in Dispatches
      BY <2>1 DEF SendInv, Held, Holding, Deliver, At
    <3>2. fresh' \subseteq Dispatches
      BY <2>1, <3>1 DEF Deliver, Outside, Stamped
    <3>3. PICK n \in Nat : calls' = [calls EXCEPT ![row[w]] = n]
      <4>1. calls[row[w]] \in Nat /\ calls[row[w]] + 1 \in Nat
        BY <3>1 DEF Outside
      <4>2. QED
        BY <2>1, <4>1 DEF Deliver
    <3>4. QED
      BY <3>2, <3>3 DEF Outside
  <2>2. CASE Claim(w) \/ Decide(w)
    BY <2>2 DEF Claim, Decide, Outside
  <2>3. QED
    BY <2>1, <2>2
<1>5. Outside'
  BY <1>1, <1>4 DEF Outside
<1>6. QED
  BY <1>2, <1>3, <1>5

LEMMA WriteTypes ==
  ASSUME SendInv, TypeInv, NEW w \in Workers, WriteStatus(w)
  PROVE  TypeInv'
<1> USE DEF TypeInv, rowVars, lockVars, batchVars, webhookVars, providerVars, outside
<1>0. row[w] \in Dispatches
  BY DEF SendInv, Held, Holding, WriteStatus, At
<1>1. /\ attempts' = attempts
      /\ UNCHANGED <<expired, recorded, checked, webhook, event, outside, calls, fresh,
                     lock, live, deaths, overdue, seen>>
      /\ stale' \subseteq stale /\ recent' \subseteq recent \cup Dispatches
  BY DEF WriteStatus, SetStatus, Stamped
<1>2. Rows' /\ Hooks' /\ Batches' /\ LockTypes' /\ Outside'
  BY <1>1 DEF Rows, Hooks, Batches, LockTypes, Outside
<1>3. \A d \in Dispatches : d # row[w] => status'[d] = status[d]
  BY DEF WriteStatus, SetStatus
<1>4. \A v \in Workers : row'[v] \in {row[v], NoDispatch}
  BY DEF WriteStatus, RowDone, SendInv, Types
<1>5. Counted'
  BY <1>0, <1>1, <1>3, <1>4, CountedKept, DispatchAssumption DEF DispatchAssumption
<1>6. QED
  BY <1>2, <1>5

\* The row is counted from the list, which it was on with an attempt left.
LEMMA RetryTypes ==
  ASSUME SendInv, TypeInv, NEW w \in Workers, RetryOrFail(w)
  PROVE  TypeInv'
<1> USE DEF TypeInv, rowVars, lockVars, batchVars, webhookVars, providerVars, outside
<1> DEFINE d == row[w]
           n == seen[w][d] + 1
<1>1. /\ UNCHANGED <<expired, recent, recorded, checked, webhook, event, outside, calls, fresh,
                     lock, live, deaths, overdue, seen>>
      /\ stale' \subseteq stale
      /\ attempts' = [attempts EXCEPT ![d] = n]
      /\ SetStatus({d}, IF Exhausted(n) THEN "FAILED" ELSE "PENDING")
      /\ row' = [row EXCEPT ![w] = NoDispatch] /\ step[w] = "write"
  BY DEF RetryOrFail, SetStatus, RowDone, At
<1>2. d \in Dispatches
  BY <1>1 DEF SendInv, Held, Holding
<1>3. n \in 1..MaxSendAttempts
  BY <1>2, DispatchAssumption DEF DispatchAssumption, Batches
<1>4. \A v \in Workers \ {w} : row[v] \in Dispatches => row[v] # d
  BY <1>2 DEF SendInv, OneHolder
<1> HIDE DEF d, n
<1>5. Rows'
  BY <1>1, <1>2, <1>3, DispatchAssumption DEF DispatchAssumption, Rows
<1>6. Hooks' /\ Batches' /\ LockTypes' /\ Outside'
  BY <1>1 DEF Hooks, Batches, LockTypes, Outside
<1>7. Counted'
  <2>1. \A e \in Dispatches : status'[e] \in Waiting => attempts'[e] < MaxSendAttempts
    <3>1. status'[d] \in Waiting => n < MaxSendAttempts
      BY <1>1, <1>2, <1>3, DispatchAssumption
         DEF DispatchAssumption, SetStatus, Exhausted, Waiting
    <3>2. attempts'[d] = n
      BY <1>1, <1>2 DEF Rows
    <3>3. \A e \in Dispatches \ {d} : status'[e] = status[e] /\ attempts'[e] = attempts[e]
      BY <1>1 DEF SetStatus, Rows
    <3>4. QED
      BY <3>1, <3>2, <3>3 DEF Counted
  <2>2. \A v \in Workers : row'[v] \in Dispatches => attempts'[row'[v]] < MaxSendAttempts
    <3>1. \A v \in Workers : row'[v] \in Dispatches => v # w /\ row'[v] = row[v]
      BY <1>1, DispatchAssumption DEF DispatchAssumption, SendInv, Types
    <3>2. \A e \in Dispatches \ {d} : attempts'[e] = attempts[e]
      BY <1>1 DEF Rows
    <3>3. QED
      BY <1>4, <3>1, <3>2 DEF Counted
  <2>3. QED
    BY <2>1, <2>2 DEF Counted
<1>8. QED
  BY <1>5, <1>6, <1>7

\* A batch that throws, ends or dies lets go of its row at most.
LEMMA LettingGoTypes ==
  ASSUME SendInv, TypeInv, NEW w \in Workers, WriteThrows(w) \/ EndBatch(w) \/ Die(w)
  PROVE  TypeInv'
<1> USE DEF TypeInv, rowVars, lockVars, batchVars, webhookVars, providerVars, outside
<1>1. /\ UNCHANGED <<rowVars, recorded, checked, webhook, event, calls, fresh, enabled, slow, dropped, live>>
      /\ \A v \in Workers : row'[v] \in {row[v], NoDispatch}
  BY DEF WriteThrows, EndBatch, Die, Forget, RowDone, Lock!ReleaseRead, Lock!Die, SendInv, Types
<1>2. Rows' /\ Hooks'
  BY <1>1 DEF Rows, Hooks
<1>3. Counted'
  BY <1>1, CountedKept, DispatchAssumption DEF DispatchAssumption
<1>4. Outside'
  <2>1. faults' \in 0..MaxFaults
    BY DispatchAssumption DEF DispatchAssumption, Outside, WriteThrows, EndBatch, Die
  <2>2. QED
    BY <1>1, <2>1 DEF Outside
<1>5. LockTypes'
  BY DispatchAssumption
     DEF DispatchAssumption, LockTypes, WriteThrows, EndBatch, Lock!ReleaseRead, Die, Lock!Die
<1>6. Batches'
  <2>1. Nothing \in [Dispatches -> 0..(MaxSendAttempts - 1)]
    BY DispatchAssumption DEF DispatchAssumption, Nothing
  <2>2. CASE WriteThrows(w)
    BY <2>2 DEF WriteThrows, Batches
  <2>3. CASE EndBatch(w) \/ Die(w)
    BY <2>1, <2>3 DEF EndBatch, Die, Forget, Batches
  <2>4. QED
    BY <2>2, <2>3
<1>7. QED
  BY <1>2, <1>3, <1>4, <1>5, <1>6

LEMMA TypeInvStep == SendInv /\ TypeInv /\ [Next]_vars => TypeInv'
<1> SUFFICES ASSUME SendInv, TypeInv, [Next]_vars PROVE TypeInv'
  OBVIOUS
<1>1. CASE Enqueue
  BY <1>1, EnqueueTypes
<1>2. ASSUME NEW w \in Workers, Batch(w) \/ Fault(w) PROVE TypeInv'
  <2>1. CASE QuietBatch(w)
    BY <2>1, QuietBatchTypes
  <2>2. CASE Claim(w) \/ Decide(w) \/ Deliver(w)
    BY <2>2, HandlingTypes
  <2>3. CASE WriteStatus(w)
    BY <2>3, WriteTypes
  <2>4. CASE RetryOrFail(w)
    BY <2>4, RetryTypes
  <2>5. CASE WriteThrows(w) \/ EndBatch(w) \/ Die(w)
    BY <2>5, LettingGoTypes
  <2>6. QED
    BY <1>2, <2>1, <2>2, <2>3, <2>4, <2>5 DEF Batch, Fault, QuietBatch
<1>3. ASSUME NEW h \in Handlers, Webhook(h) PROVE TypeInv'
  BY <1>3, WebhookTypes
<1>4. CASE Time
  BY <1>4, TimeTypes
<1>5. CASE UNCHANGED vars
  BY <1>5 DEF vars, TypeInv, Rows, Batches, Hooks, Outside, LockTypes, Counted
<1>6. QED
  BY <1>1, <1>2, <1>3, <1>4, <1>5 DEF Next

(* Every variable keeps its type: in particular no row counts more         *)
(* attempts than MAX_SEND_ATTEMPTS, although every batch counts from a     *)
(* copy, and batches overlap.                                              *)
THEOREM TypeCorrect == Spec => []TypeOK
<1>1. SendInv /\ TypeInv => TypeOK
  BY DispatchAssumption
     DEF DispatchAssumption, SendInv, Types, TypeInv, Rows, Batches, Hooks, Outside, LockTypes,
         TypeOK, Lock!TypeOK
<1>2. QED
  BY <1>1, SendInvInit, SendInvStep, TypeInvInit, TypeInvStep, PTL DEF Spec
----------------------------------------------------------------------------
(* The contract.  While no row goes stale under a live batch, a held row   *)
(* is PROCESSING and not stale, so that only its holder moves it on; and   *)
(* an event that is applied finds a row that has left and has ended.       *)

Quick == slow = 0

ContractInv ==
  /\ \A w \in Workers : row[w] \in Dispatches =>
       status[row[w]] = "PROCESSING" /\ row[w] \notin stale
  /\ \A w \in Workers : step[w] = "write" /\ plan[w] = "sent" => accepted[row[w]] # 0
  /\ \A h \in Handlers : webhook[h] # "idle" =>
       event[h] \in Events /\ accepted[event[h].dispatch] # 0
  /\ \A h \in Handlers : webhook[h] \in {"matched", "apply"} =>
       status[event[h].dispatch] \in {"OUTCOME_UNKNOWN", "SENT", "FAILED"}

LEMMA ContractInvInit == Init => ContractInv
BY DispatchAssumption DEF DispatchAssumption, Init, ContractInv

\* A step of no holder: what it moves was waiting, or stale and held by nobody.
Untouched ==
  /\ webhook' = webhook /\ event' = event
  /\ \A d \in Dispatches : \/ status'[d] = status[d]
                           \/ status[d] \in Waiting
                           \/ status[d] = "PROCESSING" /\ d \in stale
  /\ \A w \in Workers : row[w] \in Dispatches => row[w] \notin stale' \ stale

LEMMA UntouchedKeepsContract ==
  ASSUME SendInv, ContractInv, Quiet, Untouched
  PROVE  ContractInv'
<1>1. \A w \in Workers : step[w] \in Holding <=> row[w] \in Dispatches
  BY DEF SendInv, Held
<1>2. \A w \in Workers : row[w] \in Dispatches => status'[row[w]] = "PROCESSING"
  BY DEF ContractInv, Untouched, Waiting
<1>3. \A w \in Workers : step'[w] = "write" => step[w] = "write"
  BY DEF Quiet, Holding
<1>4. \A h \in Handlers : webhook[h] \in {"matched", "apply"} =>
        /\ event[h].dispatch \in Dispatches
        /\ status'[event[h].dispatch] = status[event[h].dispatch]
  BY DEF ContractInv, Untouched, Waiting, Events
<1>5. QED
  BY <1>1, <1>2, <1>3, <1>4 DEF ContractInv, Untouched, Quiet

LEMMA EnqueueUntouched == ASSUME SendInv, TypeInv, Enqueue PROVE Untouched
<1>1. /\ webhook' = webhook /\ event' = event /\ stale' \subseteq stale
      /\ \A d \in Dispatches : status'[d] = status[d] \/ status[d] = "absent"
  BY DEF Enqueue, EnqueueRelationshipForVerifiedUser, EnqueuePurchaseConfirmation, Insert,
     CheckRecentOffer, EnqueueMockInterviewOffer, SetStatus, webhookVars, rowVars
<1>2. QED
  BY <1>1 DEF Untouched, Waiting

LEMMA QuietBatchUntouched ==
  ASSUME SendInv, TypeInv, NEW w \in Workers, QuietBatch(w)
  PROVE  Untouched
<1>1. webhook' = webhook /\ event' = event /\ stale' \subseteq stale
  BY DEF QuietBatch, StartBatch, TakeLock, RecoverStaleProcessing, ExpireOverdue, ListDue,
     EnqueueSecondCall, Insert, BatchThrows, DropLock, SetStatus, webhookVars, rowVars
<1>2. \A d \in Dispatches : \/ status'[d] = status[d]
                            \/ status[d] \in Waiting
                            \/ status[d] = "PROCESSING" /\ d \in stale
  BY DEF QuietBatch, StartBatch, TakeLock, RecoverStaleProcessing, ExpireOverdue, ListDue,
     EnqueueSecondCall, Insert, BatchThrows, DropLock, SetStatus, rowVars, Waiting
<1>3. QED
  BY <1>1, <1>2 DEF Untouched

LEMMA TimeUntouched == ASSUME SendInv, TypeInv, Quick, Quick', Time PROVE Untouched
<1>1. UNCHANGED <<webhook, event, status>>
  BY DEF Time, LockExpires, SwitchModes, BecomesDue, Expires, GoesStale, GapElapses, webhookVars, rowVars
<1>2. \A w \in Workers : row[w] \in Dispatches => row[w] \notin stale' \ stale
  <2>1. ASSUME NEW d \in Dispatches, GoesStale(d)
        PROVE  \A w \in Workers : row[w] \in Dispatches => row[w] \notin stale' \ stale
    <3>1. \A w \in Workers : row[w] # d
      BY <2>1 DEF GoesStale, Holds, Quick
    <3>2. QED
      BY <2>1, <3>1 DEF GoesStale
  <2>2. CASE stale' = stale
    BY <2>2
  <2>3. QED
    BY <2>1, <2>2 DEF Time, LockExpires, SwitchModes, BecomesDue, Expires, GapElapses, rowVars
<1>3. QED
  BY <1>1, <1>2 DEF Untouched

\* A step of the batch w: it changes a row that it holds or takes, and no
\* other; what it holds then is PROCESSING, and has left if it is to be SENT.
Handles(w) ==
  /\ webhook' = webhook /\ event' = event /\ stale' \subseteq stale
  /\ \A d \in Dispatches : accepted[d] # 0 => accepted'[d] # 0
  /\ \A v \in Workers \ {w} : row'[v] = row[v] /\ plan'[v] = plan[v] /\ step'[v] = step[v]
  /\ \A d \in Dispatches : row[w] = d \/ status[d] \in Waiting \/ status'[d] = status[d]
  /\ row'[w] \in Dispatches => status'[row'[w]] = "PROCESSING" /\ row'[w] \notin stale'
  /\ step'[w] = "write" /\ plan'[w] = "sent" => accepted'[row'[w]] # 0

LEMMA HandlesKeepsContract ==
  ASSUME SendInv, ContractInv, NEW w \in Workers, Handles(w)
  PROVE  ContractInv'
<1>1. \A v \in Workers \ {w} : row[v] \in Dispatches =>
        row[v] # row[w] /\ status[row[v]] \notin Waiting
  BY DEF SendInv, OneHolder, Held
<1>2. \A v \in Workers \ {w} : row[v] \in Dispatches =>
        status'[row[v]] = "PROCESSING" /\ row[v] \notin stale'
  BY <1>1 DEF ContractInv, Handles
<1>3. \A v \in Workers \ {w} : step[v] = "write" => row[v] \in Dispatches
  BY DEF SendInv, Held, Holding
<1>4. \A h \in Handlers : webhook[h] # "idle" => event[h].dispatch \in Dispatches
  BY DEF ContractInv, Events
<1>5. \A h \in Handlers : webhook[h] \in {"matched", "apply"} =>
        status'[event[h].dispatch] = status[event[h].dispatch]
  <2>1. \A h \in Handlers : webhook[h] \in {"matched", "apply"} =>
          row[w] # event[h].dispatch /\ status[event[h].dispatch] \notin Waiting
    BY <1>4 DEF ContractInv, Waiting
  <2>2. QED
    BY <1>4, <2>1 DEF Handles
<1>6. QED
  BY <1>2, <1>3, <1>4, <1>5 DEF ContractInv, Handles

LEMMA HolderHandles ==
  ASSUME SendInv, TypeInv, ContractInv, NEW w \in Workers,
         \/ Claim(w) \/ Decide(w) \/ Deliver(w) \/ WriteStatus(w) \/ RetryOrFail(w)
         \/ WriteThrows(w) \/ EndBatch(w) \/ Die(w)
  PROVE  Handles(w)
<1> USE DEF SendInv, rowVars, lockVars, batchVars, webhookVars, providerVars, outside
<1>0. NoDispatch \notin Dispatches
  BY DispatchAssumption DEF DispatchAssumption
<1>1. CASE Claim(w)
  <2>1. PICK d \in todo[w] :
          IF Claimable(d) THEN /\ SetStatus({d}, "PROCESSING") /\ row' = [row EXCEPT ![w] = d]
                               /\ GoTo(w, "decide")
                          ELSE UNCHANGED <<status, stale, row, step>>
    BY <1>1 DEF Claim
  <2>2. /\ UNCHANGED <<webhook, event, accepted, plan>> /\ step[w] = "next" /\ d \in Dispatches
    BY <1>1 DEF Claim, At, Types
  <2>3. CASE Claimable(d)
    <3>1. /\ status' = [status EXCEPT ![d] = "PROCESSING"] /\ stale' = stale \ {d}
          /\ row' = [row EXCEPT ![w] = d] /\ step' = [step EXCEPT ![w] = "decide"]
      BY <2>1, <2>3 DEF SetStatus, GoTo, Types
    <3>2. status[d] \in Waiting
      BY <2>3 DEF Claimable, Waiting
    <3>3. QED
      BY <2>2, <3>1, <3>2 DEF Handles, Types
  <2>4. CASE ~Claimable(d)
    BY <2>1, <2>2, <2>4 DEF Handles, ContractInv
  <2>5. QED
    BY <2>3, <2>4
<1>2. CASE Decide(w)
  <2>1. /\ UNCHANGED <<webhook, event, accepted, row, status, stale>>
        /\ \E p \in Decisions(w) : /\ plan' = [plan EXCEPT ![w] = p] /\ p # "sent"
    BY <1>2, DispatchAssumption DEF DispatchAssumption, Decide, Decisions, Deferral
  <2>2. \A v \in Workers \ {w} : step'[v] = step[v]
    BY <1>2 DEF Decide, GoTo, Types
  <2>3. QED
    BY <2>1, <2>2 DEF Handles, ContractInv, Types
<1>3. CASE Deliver(w)
  <2>1. row[w] \in Dispatches
    BY <1>3 DEF Deliver, At, Held, Holding
  <2>2. UNCHANGED <<webhook, event, row, status, stale>> /\ step' = [step EXCEPT ![w] = "write"]
    BY <1>3 DEF Deliver, GoTo
  <2>3. CASE /\ accepted' = [accepted EXCEPT ![row[w]] = @ + 1]
             /\ \E p : plan' = [plan EXCEPT ![w] = p]
    <3>1. accepted'[row[w]] = accepted[row[w]] + 1 /\ accepted[row[w]] \in Nat
      BY <2>1, <2>3 DEF Types
    <3>2. \A d \in Dispatches : d # row[w] => accepted'[d] = accepted[d]
      BY <2>3 DEF Types
    <3>3. QED
      BY <2>1, <2>2, <2>3, <3>1, <3>2 DEF Handles, ContractInv, Types
  <2>4. CASE /\ accepted' = accepted
             /\ \E p \in {"rejected", "unknown", "recoverUnknown"} : plan' = [plan EXCEPT ![w] = p]
    BY <2>1, <2>2, <2>4 DEF Handles, ContractInv, Types
  <2>5. QED
    BY <1>3, <2>3, <2>4 DEF Deliver
<1>4. CASE WriteStatus(w) \/ RetryOrFail(w)
  <2>1. /\ UNCHANGED <<webhook, event, accepted>> /\ row' = [row EXCEPT ![w] = NoDispatch]
        /\ plan' = [plan EXCEPT ![w] = "none"]
        /\ \E s : SetStatus({row[w]}, s) /\ \E t : step' = [step EXCEPT ![w] = t]
    BY <1>4 DEF WriteStatus, RetryOrFail, RowDone, GoTo
  <2>2. stale' \subseteq stale /\ \A d \in Dispatches : row[w] = d \/ status'[d] = status[d]
    BY <2>1 DEF SetStatus
  <2>3. QED
    BY <1>0, <2>1, <2>2 DEF Handles, Types
<1>5. CASE WriteThrows(w)
  <2>1. /\ UNCHANGED <<webhook, event, accepted, status, stale>> /\ step[w] = "write"
        /\ row[w] \in Dispatches
    BY <1>5 DEF WriteThrows, At, Held, Holding
  <2>2. \/ /\ row' = [row EXCEPT ![w] = NoDispatch] /\ plan' = [plan EXCEPT ![w] = "none"]
           /\ step' = [step EXCEPT ![w] = "next"]
        \/ row' = row /\ step' = step /\ \E p \in Recovery : plan' = [plan EXCEPT ![w] = p]
    BY <1>5 DEF WriteThrows, RowDone, GoTo, Recovery
  <2>3. QED
    BY <1>0, <2>1, <2>2 DEF Handles, ContractInv, Types, Recovery
<1>6. CASE EndBatch(w) \/ Die(w)
  <2>1. /\ UNCHANGED <<webhook, event, accepted, status, stale>>
        /\ row' = [row EXCEPT ![w] = NoDispatch] /\ plan' = [plan EXCEPT ![w] = "none"]
        /\ step' = [step EXCEPT ![w] = "idle"]
    BY <1>6 DEF EndBatch, Die, Forget, RowDone, GoTo
  <2>2. QED
    BY <1>0, <2>1 DEF Handles, Types
<1>7. QED
  BY <1>1, <1>2, <1>3, <1>4, <1>5, <1>6

LEMMA WebhookKeepsContract ==
  ASSUME SendInv, TypeInv, ContractInv, NEW h \in Handlers, Webhook(h)
  PROVE  ContractInv'
<1> USE DEF rowVars, lockVars, batchVars, webhookVars, providerVars, outside
<1>1. CASE ReceiveEvent(h)
  <2>1. PICK e \in Events :
          /\ accepted[e.dispatch] > 0 /\ event' = [event EXCEPT ![h] = e]
          /\ webhook' = [webhook EXCEPT ![h] =
               IF status[e.dispatch] = "OUTCOME_UNKNOWN" THEN "matched" ELSE "unmatched"]
    BY <1>1 DEF ReceiveEvent
  <2>2. e.dispatch \in Dispatches /\ accepted[e.dispatch] # 0
    BY <2>1 DEF Events, SendInv, Types
  <2>3. UNCHANGED <<status, stale, row, step, plan, accepted>>
    BY <1>1 DEF ReceiveEvent
  <2>4. QED
    BY <2>1, <2>2, <2>3 DEF ContractInv, TypeInv, Hooks
<1>2. CASE RecordEvent(h)
  <2>1. /\ UNCHANGED <<status, stale, row, step, plan, accepted>>
        /\ \/ /\ webhook[h] = "matched" /\ webhook' = [webhook EXCEPT ![h] = "apply"]
              /\ event' = event
           \/ FinishWebhook(h)
    BY <1>2 DEF RecordEvent
  <2>2. QED
    BY <2>1 DEF FinishWebhook, ContractInv, TypeInv, Hooks
<1>3. CASE ApplyEvent(h)
  <2> DEFINE d == event[h].dispatch
  <2>1. PICK s \in {"SENT", "FAILED"} : SetStatus({d}, s)
    BY <1>3 DEF ApplyEvent
  <2>2. UNCHANGED <<row, step, plan, accepted>> /\ FinishWebhook(h)
    BY <1>3 DEF ApplyEvent
  <2>3. \A w \in Workers : row[w] \in Dispatches => row[w] # d
    BY <1>3 DEF ApplyEvent, ContractInv
  <2>4. stale' \subseteq stale
    BY <2>1 DEF SetStatus
  <2>5. \A e \in Dispatches : status'[e] = IF e = d THEN s ELSE status[e]
    BY <2>1 DEF SetStatus
  <2>6. \A g \in Handlers : webhook[g] # "idle" => event[g].dispatch \in Dispatches
    BY DEF ContractInv, Events
  <2> HIDE DEF d
  <2>7. QED
    BY <2>2, <2>3, <2>4, <2>5, <2>6 DEF FinishWebhook, ContractInv, TypeInv, Hooks
<1>4. CASE DropWebhook(h)
  BY <1>4 DEF DropWebhook, FinishWebhook, ContractInv, TypeInv, Hooks
<1>5. QED
  BY <1>1, <1>2, <1>3, <1>4 DEF Webhook

LEMMA ContractInvStep ==
  ASSUME SendInv, TypeInv, ContractInv, Quick, Quick', [Next]_vars
  PROVE  ContractInv'
<1>1. CASE Enqueue
  BY <1>1, EnqueueQuiet, EnqueueUntouched, UntouchedKeepsContract
<1>2. ASSUME NEW w \in Workers, Batch(w) \/ Fault(w) PROVE ContractInv'
  <2>1. CASE QuietBatch(w)
    BY <2>1, QuietBatchQuiet, QuietBatchUntouched, UntouchedKeepsContract
  <2>2. CASE \/ Claim(w) \/ Decide(w) \/ Deliver(w) \/ WriteStatus(w) \/ RetryOrFail(w)
             \/ WriteThrows(w) \/ EndBatch(w) \/ Die(w)
    BY <2>2, HolderHandles, HandlesKeepsContract
  <2>3. QED
    BY <1>2, <2>1, <2>2 DEF Batch, Fault, QuietBatch
<1>3. ASSUME NEW h \in Handlers, Webhook(h) PROVE ContractInv'
  BY <1>3, WebhookKeepsContract
<1>4. CASE Time
  BY <1>4, TimeQuiet, TimeUntouched, UntouchedKeepsContract
<1>5. CASE UNCHANGED vars
  BY <1>5 DEF vars, ContractInv
<1>6. QED
  BY <1>1, <1>2, <1>3, <1>4, <1>5 DEF Next

(* Each step of the rows is a step of the contract, or none.               *)

StageOf == [d \in Dispatches |-> Stage[status[d]]]
LeftSet == {d \in Dispatches : accepted[d] > 0}
ContractStep == Contract!Next \/ (StageOf' = StageOf /\ LeftSet' = LeftSet)

LEMMA StatusMoves ==
  ASSUME NEW S, NEW s \in Statuses, SetStatus(S, s)
  PROVE  Contract!Move(S, Stage[s])
BY DEF SetStatus, Contract!Move

\* A statement that sets a status is a move that leaves alone what has left.
LEMMA StatusMovesOnly ==
  ASSUME NEW S, NEW s \in Statuses, SetStatus(S, s), accepted' = accepted
  PROVE  Contract!Move(S, Stage[s]) /\ UNCHANGED LeftSet
BY StatusMoves DEF LeftSet

LEMMA StageIs ==
  ASSUME Types, NEW d \in Dispatches
  PROVE  /\ status[d] = "absent" => StageOf[d] = "none"
         /\ status[d] = "PENDING" => StageOf[d] = "waiting"
         /\ status[d] = "PROCESSING" => StageOf[d] = "processing"
         /\ status[d] = "OUTCOME_UNKNOWN" => StageOf[d] = "unknown"
         /\ status[d] = "SENT" => StageOf[d] = "sent"
         /\ status[d] = "FAILED" => StageOf[d] = "failed"
BY DEF StageOf, Stage

LEMMA InsertIsStep ==
  ASSUME SendInv, NEW T, Insert(T), accepted' = accepted
  PROVE  ContractStep
<1> USE DEF SendInv
<1>1. PICK S \in SUBSET {d \in Dispatches : status[d] = "absent"} :
        \A d \in Dispatches : status'[d] = IF d \in S THEN "PENDING" ELSE status[d]
  <2> DEFINE S == {d \in Dispatches : d \in T /\ status[d] = "absent"}
  <2>1. \A d \in Dispatches : status'[d] = IF d \in S THEN "PENDING" ELSE status[d]
    BY DEF Insert
  <2>2. QED
    BY <2>1
<1>2. StageOf' = [d \in Dispatches |-> IF d \in S THEN "waiting" ELSE StageOf[d]]
  BY <1>1 DEF StageOf, Stage
<1>3. \A d \in S : StageOf[d] = "none"
  BY StageIs
<1>4. LeftSet' = LeftSet /\ S \in SUBSET Dispatches
  BY DEF LeftSet
<1>5. Contract!Enqueue(S)
  BY <1>2, <1>3, <1>4 DEF Contract!Enqueue, Contract!Move, StageOf, LeftSet
<1>6. QED
  BY <1>4, <1>5 DEF ContractStep, Contract!Next

LEMMA EnqueueIsStep == ASSUME SendInv, Enqueue PROVE ContractStep
<1> USE DEF SendInv
<1>2. ASSUME NEW d \in Dispatches, EnqueuePurchaseConfirmation(d) PROVE ContractStep
  <2>1. SetStatus({d}, "PENDING") /\ accepted' = accepted /\ status[d] = "absent"
    BY <1>2 DEF EnqueuePurchaseConfirmation, providerVars
  <2>2. Contract!Move({d}, "waiting") /\ LeftSet' = LeftSet
    BY <2>1, StatusMovesOnly DEF Statuses, Open, Stage
  <2>3. StageOf[d] = "none"
    BY <2>1, StageIs
  <2>4. Contract!Enqueue({d})
    BY <2>2, <2>3 DEF Contract!Enqueue, StageOf, LeftSet
  <2>5. QED
    BY <2>4 DEF ContractStep, Contract!Next
<1>3. ASSUME NEW d \in Dispatches, CheckRecentOffer(d) PROVE ContractStep
  BY <1>3 DEF CheckRecentOffer, rowVars, providerVars, ContractStep, StageOf, LeftSet
<1>4. CASE EnqueueRelationshipForVerifiedUser
  BY <1>4, InsertIsStep DEF EnqueueRelationshipForVerifiedUser, providerVars
<1>5. ASSUME NEW d \in Dispatches, EnqueueMockInterviewOffer(d) PROVE ContractStep
  BY <1>5, InsertIsStep DEF EnqueueMockInterviewOffer, providerVars
<1>6. QED
  BY <1>2, <1>3, <1>4, <1>5 DEF Enqueue

LEMMA QuietBatchIsStep == ASSUME SendInv, NEW w \in Workers, QuietBatch(w) PROVE ContractStep
<1> USE DEF SendInv
<1>1. CASE RecoverStaleProcessing(w)
  <2>1. PICK S \in SUBSET {d \in Dispatches : status[d] = "PROCESSING"} :
          \A d \in Dispatches : status'[d] = IF d \in S THEN "OUTCOME_UNKNOWN" ELSE status[d]
    <3> DEFINE S == {d \in Dispatches : d \in stale /\ status[d] = "PROCESSING"}
    <3>1. \A d \in Dispatches : status'[d] = IF d \in S THEN "OUTCOME_UNKNOWN" ELSE status[d]
      BY <1>1 DEF RecoverStaleProcessing, SetStatus
    <3>2. QED
      BY <3>1
  <2>2. StageOf' = [d \in Dispatches |-> IF d \in S THEN "unknown" ELSE StageOf[d]]
    BY <2>1 DEF StageOf, Stage
  <2>3. LeftSet' = LeftSet
    BY <1>1 DEF RecoverStaleProcessing, providerVars, LeftSet
  <2>4. \A d \in S : StageOf[d] = "processing"
    BY StageIs
  <2>5. Contract!LoseTrack(S)
    BY <2>2, <2>3, <2>4 DEF Contract!LoseTrack, Contract!Move, StageOf, LeftSet
  <2>6. QED
    BY <2>5 DEF ContractStep, Contract!Next
<1>2. CASE ExpireOverdue(w)
  <2>1. PICK S \in SUBSET {d \in Dispatches : status[d] = "PENDING"} :
          \A d \in Dispatches : status'[d] = IF d \in S THEN "CANCELLED" ELSE status[d]
    <3> DEFINE S == {d \in Dispatches : d \in overdue[w] /\ status[d] = "PENDING"}
    <3>1. \A d \in Dispatches : status'[d] = IF d \in S THEN "CANCELLED" ELSE status[d]
      BY <1>2 DEF ExpireOverdue, SetStatus
    <3>2. QED
      BY <3>1
  <2>2. StageOf' = [d \in Dispatches |-> IF d \in S THEN "dropped" ELSE StageOf[d]]
    BY <2>1 DEF StageOf, Stage
  <2>3. LeftSet' = LeftSet
    BY <1>2 DEF ExpireOverdue, providerVars, LeftSet
  <2>4. \A d \in S : StageOf[d] = "waiting"
    BY StageIs
  <2>5. Contract!Expire(S)
    BY <2>2, <2>3, <2>4 DEF Contract!Expire, Contract!Move, StageOf, LeftSet
  <2>6. QED
    BY <2>5 DEF ContractStep, Contract!Next
<1>3. CASE EnqueueSecondCall(w)
  <2>1. accepted' = accepted
    BY <1>3 DEF EnqueueSecondCall, providerVars
  <2>2. CASE status' = status
    BY <2>1, <2>2 DEF ContractStep, StageOf, LeftSet
  <2>3. CASE Insert(OfKind("FEEDBACK_SECOND_CALL"))
    BY <2>1, <2>3, InsertIsStep
  <2>4. QED
    BY <1>3, <2>2, <2>3 DEF EnqueueSecondCall, rowVars
<1>4. CASE StartBatch(w) \/ TakeLock(w) \/ ListDue(w) \/ BatchThrows(w) \/ DropLock(w)
  BY <1>4 DEF StartBatch, TakeLock, ListDue, BatchThrows, DropLock, rowVars, providerVars,
              ContractStep, StageOf, LeftSet
<1>5. QED
  BY <1>1, <1>2, <1>3, <1>4 DEF QuietBatch

LEMMA WriteIsStep ==
  ASSUME SendInv, ContractInv, NEW w \in Workers, WriteStatus(w) \/ RetryOrFail(w)
  PROVE  ContractStep
<1> USE DEF SendInv
<1>0. PICK d \in Dispatches : d = row[w]
  BY DEF WriteStatus, RetryOrFail, At, Held, Holding
<1>1. /\ status[d] = "PROCESSING" /\ accepted' = accepted
      /\ accepted[d] # 0 => plan[w] \in MayHaveLeft
      /\ plan[w] = "sent" => accepted[d] # 0
  BY <1>0 DEF WriteStatus, RetryOrFail, At, LeftWithHolder, ContractInv, providerVars
<1>2. StageOf[d] = "processing" /\ (d \in LeftSet <=> accepted[d] # 0)
  BY <1>1, StageIs DEF LeftSet, Types
<1>3. ASSUME NEW s \in Statuses, NEW to \in {"waiting", "dropped", "failed"},
             SetStatus({d}, s), Stage[s] = to, plan[w] \notin MayHaveLeft
      PROVE  ContractStep
  <2>1. Contract!Move({d}, to) /\ LeftSet' = LeftSet
    BY <1>1, <1>3, StatusMovesOnly
  <2>2. Contract!PutAside(d, to)
    BY <1>1, <1>2, <1>3, <2>1 DEF Contract!PutAside, StageOf, LeftSet
  <2>3. QED
    BY <1>1, <2>2 DEF ContractStep, Contract!Next
<1>4. CASE RetryOrFail(w)
  <2>1. PICK s \in {"FAILED", "PENDING"} : SetStatus({d}, s)
    BY <1>0, <1>4 DEF RetryOrFail
  <2>2. plan[w] \notin MayHaveLeft /\ s \in Statuses
    BY <1>4 DEF RetryOrFail, MayHaveLeft, Statuses, Open, Closed
  <2>3. Stage[s] \in {"waiting", "failed"}
    BY DEF Stage
  <2>4. QED
    BY <1>3, <2>1, <2>2, <2>3
<1>5. CASE WriteStatus(w)
  <2>1. SetStatus({d}, Written[plan[w]]) /\ plan[w] \in DOMAIN Written
    BY <1>0, <1>5 DEF WriteStatus
  <2>2. plan[w] \in {"cancel", "release", "skip", "defer", "sent", "unknown", "recoverUnknown"}
    BY <2>1 DEF Written
  <2>3. CASE plan[w] \in {"cancel", "release", "skip", "defer"}
    <3>1. PICK s \in {"CANCELLED", "SKIPPED", "PENDING"} : SetStatus({d}, s)
      BY <2>1, <2>3 DEF Written
    <3>2. s \in Statuses /\ Stage[s] \in {"waiting", "dropped"}
      BY DEF Stage, Statuses, Open, Closed
    <3>3. plan[w] \notin MayHaveLeft
      BY <2>3 DEF MayHaveLeft
    <3>4. QED
      BY <1>3, <3>1, <3>2, <3>3
  <2>4. CASE plan[w] = "sent"
    <3>1. SetStatus({d}, "SENT")
      BY <2>1, <2>4 DEF Written
    <3>2. Contract!Move({d}, "sent") /\ LeftSet' = LeftSet
      BY <1>1, <3>1, StatusMovesOnly DEF Statuses, Closed, Stage
    <3>3. Contract!Confirm(d)
      BY <1>1, <1>2, <2>4, <3>2 DEF Contract!Confirm, StageOf, LeftSet
    <3>4. QED
      BY <1>1, <3>3 DEF ContractStep, Contract!Next
  <2>5. CASE plan[w] \in {"unknown", "recoverUnknown"}
    <3>1. SetStatus({d}, "OUTCOME_UNKNOWN")
      BY <2>1, <2>5 DEF Written
    <3>2. Contract!Move({d}, "unknown") /\ LeftSet' = LeftSet
      BY <1>1, <3>1, StatusMovesOnly DEF Statuses, Stage
    <3>3. Contract!LoseTrack({d})
      BY <1>1, <1>2, <3>2 DEF Contract!LoseTrack, StageOf, LeftSet
    <3>4. QED
      BY <1>1, <3>3 DEF ContractStep, Contract!Next
  <2>6. QED
    BY <2>2, <2>3, <2>4, <2>5
<1>6. QED
  BY <1>4, <1>5

LEMMA HandlingIsStep ==
  ASSUME SendInv, ContractInv, NEW w \in Workers, Claim(w) \/ Deliver(w)
  PROVE  ContractStep
<1> USE DEF SendInv
<1>1. CASE Claim(w)
  <2>1. PICK d \in todo[w] :
          IF Claimable(d) THEN SetStatus({d}, "PROCESSING") ELSE status' = status
    BY <1>1 DEF Claim
  <2>2. d \in Dispatches /\ accepted' = accepted
    BY <1>1 DEF Claim, providerVars, Types
  <2>3. CASE Claimable(d)
    <3>1. Contract!Move({d}, "processing") /\ LeftSet' = LeftSet
      BY <2>1, <2>2, <2>3, StatusMovesOnly DEF Statuses, Open, Stage
    <3>2. StageOf[d] = "waiting"
      BY <2>2, <2>3, StageIs DEF Claimable
    <3>3. Contract!Take(d)
      BY <2>2, <3>1, <3>2 DEF Contract!Take, StageOf, LeftSet
    <3>4. QED
      BY <2>2, <3>3 DEF ContractStep, Contract!Next
  <2>4. CASE ~Claimable(d)
    BY <2>1, <2>2, <2>4 DEF ContractStep, StageOf, LeftSet
  <2>5. QED
    BY <2>3, <2>4
<1>2. CASE Deliver(w)
  <2>0. PICK d \in Dispatches : d = row[w]
    BY <1>2 DEF Deliver, At, Held, Holding
  <2>1. status[d] = "PROCESSING" /\ accepted[d] = 0 /\ status' = status
    BY <1>2, <2>0 DEF Deliver, At, LeftWithHolder, ContractInv, rowVars
  <2>2. StageOf[d] = "processing" /\ d \notin LeftSet /\ StageOf' = StageOf
    BY <2>1, StageIs DEF LeftSet, StageOf
  <2>3. CASE accepted' = accepted
    BY <2>2, <2>3 DEF ContractStep, LeftSet
  <2>4. CASE accepted' = [accepted EXCEPT ![d] = @ + 1]
    <3>1. LeftSet' = LeftSet \cup {d}
      BY <2>1, <2>4 DEF LeftSet, Types
    <3>2. Contract!Leave(d)
      BY <2>1, <2>2, <3>1 DEF Contract!Leave, StageOf, LeftSet
    <3>3. QED
      BY <2>1, <3>2 DEF ContractStep, Contract!Next
  <2>5. QED
    BY <1>2, <2>0, <2>3, <2>4 DEF Deliver
<1>3. QED
  BY <1>1, <1>2

LEMMA WebhookIsStep ==
  ASSUME SendInv, ContractInv, NEW h \in Handlers, Webhook(h)
  PROVE  ContractStep
<1> USE DEF SendInv
<1>1. CASE ApplyEvent(h)
  <2>0. PICK d \in Dispatches : d = event[h].dispatch
    BY <1>1 DEF ApplyEvent, ContractInv, Events
  <2>1. PICK s \in {"SENT", "FAILED"} : SetStatus({d}, s)
    BY <1>1, <2>0 DEF ApplyEvent
  <2>2. /\ accepted[d] # 0 /\ accepted' = accepted
        /\ status[d] \in {"OUTCOME_UNKNOWN", "SENT", "FAILED"}
    BY <1>1, <2>0 DEF ApplyEvent, ContractInv, providerVars
  <2>3. PICK to \in {"sent", "failed"} : Stage[s] = to
    BY DEF Stage
  <2>4. Contract!Move({d}, to) /\ LeftSet' = LeftSet
    <3>1. s \in Statuses
      BY DEF Statuses, Closed
    <3>2. QED
      BY <2>1, <2>2, <2>3, <3>1, StatusMovesOnly
  <2>5. StageOf[d] \in {"unknown", "sent", "failed"} /\ d \in LeftSet
    BY <2>2, StageIs DEF LeftSet, Types
  <2>6. Contract!Report(d, to)
    BY <2>2, <2>4, <2>5 DEF Contract!Report, StageOf, LeftSet
  <2>7. QED
    BY <2>6 DEF ContractStep, Contract!Next
<1>2. CASE ReceiveEvent(h) \/ RecordEvent(h) \/ DropWebhook(h)
  BY <1>2 DEF ReceiveEvent, RecordEvent, DropWebhook, rowVars, providerVars,
              ContractStep, StageOf, LeftSet
<1>3. QED
  BY <1>1, <1>2 DEF Webhook

LEMMA NextIsContractStep ==
  ASSUME SendInv, ContractInv, [Next]_vars
  PROVE  [Contract!Next]_(Contract!vars)
<1> SUFFICES ContractStep
  BY DEF ContractStep, Contract!vars, StageOf, LeftSet
<1>1. ASSUME status' = status, accepted' = accepted PROVE ContractStep
  BY <1>1 DEF ContractStep, StageOf, LeftSet
<1>2. ASSUME NEW w \in Workers, Batch(w) \/ Fault(w) PROVE ContractStep
  <2>1. CASE Decide(w) \/ WriteThrows(w) \/ EndBatch(w) \/ Die(w)
    BY <1>1, <2>1 DEF Decide, WriteThrows, EndBatch, Die, rowVars, providerVars
  <2>2. QED
    BY <1>2, <2>1, QuietBatchIsStep, HandlingIsStep, WriteIsStep DEF Batch, Fault, QuietBatch
<1>3. CASE Time
  <2>1. status' = status /\ accepted' = accepted
    BY <1>3 DEF Time, LockExpires, SwitchModes, BecomesDue, Expires, GoesStale, GapElapses, rowVars, providerVars
  <2>2. QED
    BY <1>1, <2>1
<1>4. CASE UNCHANGED vars
  BY <1>1, <1>4 DEF vars
<1>5. QED
  BY <1>2, <1>3, <1>4, EnqueueIsStep, WebhookIsStep DEF Next

(* While no row goes stale under a batch that lives, the rows behave as    *)
(* the contract says, whatever overlaps, dies or throws and in whatever    *)
(* order SES reports: an e-mail has one life.                              *)
THEOREM RowsKeepTheContract == Spec /\ []Quick => ContractSpec
<1>1. Init => Contract!Init
  BY DEF Init, Nothing, Contract!Init, Stage
<1>2. SendInv /\ TypeInv /\ ContractInv /\ Quick /\ Quick' /\ [Next]_vars
        => SendInv' /\ TypeInv' /\ ContractInv'
  BY SendInvStep, TypeInvStep, ContractInvStep
<1>3. SendInv /\ ContractInv /\ [Next]_vars => [Contract!Next]_(Contract!vars)
  BY NextIsContractStep
<1>4. QED
  BY <1>1, <1>2, <1>3, SendInvInit, TypeInvInit, ContractInvInit, PTL
  DEF Spec, ContractSpec, Contract!Spec

----------------------------------------------------------------------------
(* What holds while batches do not overlap.                                *)

OneBatch == Lock!OneBatchAtATime

\* The lock of the dispatch, without the history.
Overlap == INSTANCE LockOverlap_proofs WITH Owners <- Workers, excused <- FALSE

(* No TTL passes under a batch, and no two batches read the lock before    *)
(* either takes it: the two causes LockOverlap knows.                      *)
NoOverlapCause == [][~Overlap!TtlPassedUnderBatch /\ ~Overlap!ReadsOverlap]_vars

\* The batches use the lock as SchedulerLock says.
LEMMA LockStep ==
  ASSUME [Next]_vars
  PROVE  Lock!Next \/ UNCHANGED lockVars
<1>1. ASSUME NEW w \in Workers, Batch(w) \/ Fault(w)
      PROVE  Lock!Next \/ UNCHANGED lockVars
  <2>1. CASE StartBatch(w) \/ TakeLock(w) \/ EndBatch(w) \/ DropLock(w)
    <3>1. Lock!Step(w)
      BY <2>1 DEF StartBatch, TakeLock, EndBatch, DropLock, Lock!Step
    <3>2. QED
      BY <3>1 DEF Lock!Next
  <2>2. CASE Die(w)
    BY <2>2 DEF Die, Lock!Next
  <2>3. CASE ~(StartBatch(w) \/ TakeLock(w) \/ EndBatch(w) \/ DropLock(w) \/ Die(w))
    BY <1>1, <2>3 DEF Batch, Fault, RecoverStaleProcessing, ExpireOverdue, ListDue, Claim, Decide,
       Deliver, WriteStatus, RetryOrFail, EnqueueSecondCall, WriteThrows, BatchThrows
  <2>4. QED
    BY <2>1, <2>2, <2>3
<1>2. CASE Time
  BY <1>2 DEF Time, LockExpires, SwitchModes, BecomesDue, Expires, GoesStale, GapElapses, Lock!Next, lockVars
<1>3. CASE Enqueue
  BY <1>3 DEF Enqueue, EnqueueRelationshipForVerifiedUser, EnqueuePurchaseConfirmation,
     CheckRecentOffer, EnqueueMockInterviewOffer
<1>4. ASSUME NEW h \in Handlers, Webhook(h) PROVE UNCHANGED lockVars
  BY <1>4 DEF Webhook, ReceiveEvent, RecordEvent, ApplyEvent, DropWebhook
<1>5. CASE UNCHANGED vars
  BY <1>5 DEF vars, lockVars
<1>6. QED
  BY <1>1, <1>2, <1>3, <1>4, <1>5 DEF Next

\* Both instances are the same lock.
LEMMA SameLock == Lock!Next => Overlap!Next
<1>1. ASSUME NEW w \in Workers PROVE Lock!Step(w) => Overlap!Step(w)
  BY DEF Lock!Step, Lock!AcquireRead, Lock!AcquireRefused, Lock!Refuses, Lock!AcquireUpsert,
     Lock!ReleaseRead, Lock!ReleaseDelete, Lock!vars, Overlap!Step, Overlap!AcquireRead,
     Overlap!AcquireRefused, Overlap!Refuses, Overlap!AcquireUpsert, Overlap!ReleaseRead,
     Overlap!ReleaseDelete, Overlap!vars
<1>2. ASSUME NEW w \in Workers PROVE Lock!Die(w) => Overlap!Die(w)
  BY DEF Lock!Die, Overlap!Die
<1>3. Lock!Expire => Overlap!Expire
  BY DEF Lock!Expire, Overlap!Expire
<1>4. QED
  BY <1>1, <1>2, <1>3 DEF Lock!Next, Overlap!Next

(* Nothing else lets two batches of the dispatch run at once: whatever     *)
(* they do with the lock while rows are claimed, sent and written, deaths  *)
(* and exceptions in the middle included, OneBatch, which the theorems     *)
(* below assume, holds while neither cause comes up.                       *)
THEOREM BatchesStayApart == Spec /\ NoOverlapCause => []OneBatch
<1> USE DispatchAssumption DEF DispatchAssumption
<1>1. Init => Overlap!LockInv
  BY Overlap!LockInvInit DEF Init, Lock!Init, Overlap!OverlapInit, Overlap!Init
<1>2. Overlap!LockInv /\ [Next]_vars /\ [~Overlap!TtlPassedUnderBatch /\ ~Overlap!ReadsOverlap]_vars
        => Overlap!LockInv'
  <2>1. SUFFICES ASSUME Overlap!LockInv, [Next]_vars,
                        [~Overlap!TtlPassedUnderBatch /\ ~Overlap!ReadsOverlap]_vars
                 PROVE  Overlap!LockInv'
    OBVIOUS
  <2>2. CASE UNCHANGED lockVars
    BY <2>1, <2>2, Overlap!LockInvStep DEF lockVars, Overlap!overlapVars
  <2>3. CASE ~UNCHANGED lockVars
    <3>1. Lock!Next
      BY <2>1, <2>3, LockStep
    <3>2. ~Overlap!TtlPassedUnderBatch /\ ~Overlap!ReadsOverlap
      BY <2>1, <2>3 DEF vars, lockVars
    <3>3. Overlap!OverlapNext
      BY <3>2, SameLock, <3>1 DEF Overlap!OverlapNext
    <3>4. QED
      BY <2>1, <3>3, Overlap!LockInvStep
  <2>4. QED
    BY <2>2, <2>3
<1>3. Overlap!LockInv => OneBatch
  BY Overlap!LockInvImplies DEF OneBatch, Lock!OneBatchAtATime, Overlap!OverlapHasCause, Overlap!OneBatchAtATime
<1>4. QED
  BY <1>1, <1>2, <1>3, PTL DEF Spec, NoOverlapCause

(* The calls of a row are counted by its attempts: what a batch listed of  *)
(* a row still stands when it claims it, and a call that is not counted    *)
(* yet is the holder's.                                                    *)

\* The holder called the provider and has not written the outcome.
Called(w) == step[w] = "write" /\ plan[w] \in {"sent", "unknown", "rejected", "recoverUnknown"}

ListsAreFresh == \A w \in Workers :
  /\ todo[w] # {} => phase[w] = "in"
  /\ \A d \in todo[w] : seen[w][d] = attempts[d]
  /\ row[w] \in Dispatches => row[w] \notin todo[w] /\ seen[w][row[w]] = attempts[row[w]]

CallsAreCounted ==
  /\ \A d \in Dispatches : status[d] \in Waiting => calls[d] <= attempts[d]
  /\ \A w \in Workers : row[w] \in Dispatches =>
       calls[row[w]] <= attempts[row[w]] + IF Called(w) THEN 1 ELSE 0

CallsInv == ListsAreFresh /\ CallsAreCounted /\ SendsBounded

LEMMA CallsInvInit == Init => CallsInv
BY DispatchAssumption
   DEF DispatchAssumption, Init, CallsInv, ListsAreFresh, CallsAreCounted, SendsBounded, Nothing

\* Steps that list nothing, call nothing and count nothing.
LEMMA QuietKeepsCalls ==
  ASSUME SendInv, CallsInv, Quiet, attempts' = attempts, calls' = calls, seen' = seen,
         \A w \in Workers : /\ todo'[w] \in {todo[w], {}}
                            /\ phase'[w] = "in" \/ phase[w] # "in" \/ todo'[w] = {}
  PROVE  CallsInv'
<1>1. ListsAreFresh'
  BY DEF CallsInv, ListsAreFresh, Quiet
<1>2. \A w \in Workers : row[w] \in Dispatches => (Called(w)' <=> Called(w))
  BY DEF Quiet, SendInv, Held, Called, Holding
<1>3. CallsAreCounted' /\ SendsBounded'
  BY <1>2 DEF CallsInv, CallsAreCounted, SendsBounded, Quiet
<1>4. QED
  BY <1>1, <1>3 DEF CallsInv

LEMMA OutsideKeepsCalls ==
  ASSUME SendInv, CallsInv, Enqueue \/ Time \/ \E h \in Handlers : Webhook(h)
  PROVE  CallsInv'
<1> USE DEF rowVars, lockVars, batchVars, webhookVars, providerVars, outside
<1>1. Quiet
  BY EnqueueQuiet, TimeQuiet, WebhookQuiet
<1>2. UNCHANGED <<attempts, calls, seen, todo, phase>>
  <2>1. CASE Enqueue
    BY <2>1 DEF Enqueue, EnqueueRelationshipForVerifiedUser, Insert, EnqueuePurchaseConfirmation,
       CheckRecentOffer, EnqueueMockInterviewOffer
  <2>2. CASE Time
    BY <2>2 DEF Time, LockExpires, SwitchModes, Lock!Expire, BecomesDue, Expires, GoesStale, GapElapses
  <2>3. CASE \E h \in Handlers : Webhook(h)
    BY <2>3 DEF Webhook, ReceiveEvent, RecordEvent, ApplyEvent, DropWebhook
  <2>4. QED
    BY <2>1, <2>2, <2>3
<1>3. QED
  BY <1>1, <1>2, QuietKeepsCalls

LEMMA QuietBatchKeepsCalls ==
  ASSUME SendInv, TypeInv, CallsInv, NEW w \in Workers, QuietBatch(w)
  PROVE  CallsInv'
<1> USE DEF rowVars, lockVars, batchVars, webhookVars, providerVars, outside
<1>0. Quiet /\ UNCHANGED <<attempts, calls>>
  BY QuietBatchQuiet
  DEF QuietBatch, StartBatch, TakeLock, RecoverStaleProcessing, ExpireOverdue, ListDue,
      EnqueueSecondCall, Insert, BatchThrows, DropLock
<1>1. CASE ListDue(w)
  <2>1. PICK L \in SUBSET due :
          /\ todo' = [todo EXCEPT ![w] = L]
          /\ seen' = [seen EXCEPT ![w] = [d \in Dispatches |-> IF d \in L THEN attempts[d] ELSE 0]]
    BY <1>1 DEF ListDue
  <2>2. /\ row[w] \notin Dispatches /\ phase[w] = "in" /\ phase' = phase
        /\ L \subseteq Dispatches
    BY <1>1 DEF ListDue, At, SendInv, Held, Holding, Types
  <2>3. todo'[w] = L /\ \A d \in L : seen'[w][d] = attempts[d]
    BY <2>1, <2>2 DEF SendInv, Types, TypeInv, Batches
  <2>4. \A v \in Workers \ {w} : todo'[v] = todo[v] /\ seen'[v] = seen[v]
    BY <2>1 DEF SendInv, Types, TypeInv, Batches
  <2>5. ListsAreFresh'
    BY <1>0, <2>2, <2>3, <2>4 DEF CallsInv, ListsAreFresh, Quiet
  <2>6. \A v \in Workers : row[v] \in Dispatches => (Called(v)' <=> Called(v))
    BY <1>0 DEF Quiet, SendInv, Held, Called, Holding
  <2>7. CallsAreCounted' /\ SendsBounded'
    BY <1>0, <2>6 DEF CallsInv, CallsAreCounted, SendsBounded, Quiet
  <2>8. QED
    BY <2>5, <2>7 DEF CallsInv
<1>2. CASE BatchThrows(w)
  <2>1. seen' = seen /\ phase' = phase /\ todo' = [todo EXCEPT ![w] = {}]
    BY <1>2 DEF BatchThrows
  <2>2. \A v \in Workers : todo'[v] \in {todo[v], {}}
    BY <2>1 DEF SendInv, Types
  <2>3. QED
    BY <1>0, <2>1, <2>2, QuietKeepsCalls
<1>3. CASE RecoverStaleProcessing(w) \/ ExpireOverdue(w) \/ EnqueueSecondCall(w)
  <2>1. UNCHANGED <<seen, phase, todo>>
    BY <1>3 DEF RecoverStaleProcessing, ExpireOverdue, EnqueueSecondCall
  <2>2. QED
    BY <1>0, <2>1, QuietKeepsCalls
<1>4. CASE StartBatch(w) \/ TakeLock(w) \/ DropLock(w)
  <2>1. /\ UNCHANGED <<seen, todo>>
        /\ phase[w] # "in" /\ \E q : phase' = [phase EXCEPT ![w] = q]
    BY <1>4 DEF StartBatch, Lock!AcquireRead, TakeLock, Lock!AcquireUpsert, DropLock,
                Lock!ReleaseDelete
  <2>2. \A v \in Workers : phase'[v] = "in" \/ phase[v] # "in"
    BY <2>1 DEF SendInv, Types
  <2>3. QED
    BY <1>0, <2>1, <2>2, QuietKeepsCalls
<1>5. QED
  BY <1>1, <1>2, <1>3, <1>4 DEF QuietBatch

LEMMA ClaimKeepsCalls ==
  ASSUME SendInv, TypeInv, CallsInv, NEW w \in Workers, Claim(w)
  PROVE  CallsInv'
<1> USE DEF rowVars, lockVars, batchVars, webhookVars, providerVars, outside
<1>1. PICK d \in todo[w] :
        /\ todo' = [todo EXCEPT ![w] = @ \ {d}]
        /\ IF Claimable(d) THEN /\ SetStatus({d}, "PROCESSING") /\ row' = [row EXCEPT ![w] = d]
                                /\ GoTo(w, "decide")
                           ELSE UNCHANGED <<status, row, step>>
  BY DEF Claim
<1>2. /\ UNCHANGED <<attempts, calls, seen, phase, plan>>
      /\ row[w] \notin Dispatches /\ phase[w] = "in" /\ d \in Dispatches
  BY DEF Claim, At, SendInv, Held, Holding, Types
<1>3. /\ todo'[w] = todo[w] \ {d}
      /\ \A v \in Workers \ {w} : todo'[v] = todo[v]
  BY <1>1 DEF SendInv, Types
<1>4. CASE Claimable(d)
  <2>1. status' = [status EXCEPT ![d] = "PROCESSING"] /\ status[d] \in Waiting
    BY <1>1, <1>4 DEF SetStatus, SendInv, Types, Claimable, Waiting
  <2>2. /\ row'[w] = d /\ step'[w] = "decide"
        /\ \A v \in Workers \ {w} : row'[v] = row[v] /\ step'[v] = step[v]
    BY <1>1, <1>4 DEF GoTo, SendInv, Types
  <2>3. ListsAreFresh'
    BY <1>2, <1>3, <2>2 DEF CallsInv, ListsAreFresh
  <2>4. ~Called(w)' /\ \A v \in Workers \ {w} : Called(v)' <=> Called(v)
    BY <1>2, <2>2 DEF Called
  <2>5. \A e \in Dispatches : status'[e] \in Waiting => status[e] \in Waiting
    BY <1>2, <2>1 DEF SendInv, Types, Waiting
  <2>6. calls[d] <= attempts[d] + 0
    BY <1>2, <2>1 DEF CallsInv, CallsAreCounted, TypeInv, Rows
  <2>7. CallsAreCounted'
    BY <1>2, <2>2, <2>4, <2>5, <2>6 DEF CallsInv, CallsAreCounted
  <2>8. SendsBounded'
    BY <1>2 DEF CallsInv, SendsBounded
  <2>9. QED
    BY <2>3, <2>7, <2>8 DEF CallsInv
<1>5. CASE ~Claimable(d)
  <2>1. UNCHANGED <<status, row, step>>
    BY <1>1, <1>5
  <2>2. ListsAreFresh'
    BY <1>2, <1>3, <2>1 DEF CallsInv, ListsAreFresh
  <2>3. CallsAreCounted' /\ SendsBounded'
    BY <1>2, <2>1 DEF CallsInv, CallsAreCounted, SendsBounded, Called
  <2>4. QED
    BY <2>2, <2>3 DEF CallsInv
<1>6. QED
  BY <1>4, <1>5

LEMMA DecideKeepsCalls ==
  ASSUME SendInv, TypeInv, CallsInv, NEW w \in Workers, Decide(w)
  PROVE  CallsInv'
<1> USE DEF rowVars, lockVars, batchVars, webhookVars, providerVars, outside
<1>1. UNCHANGED <<attempts, calls, seen, phase, todo, row, status>> /\ step[w] = "decide"
  BY DEF Decide, At
<1>2. PICK p : p \in Decisions(w) /\ plan' = [plan EXCEPT ![w] = p]
  BY DEF Decide
<1>3. p \notin {"sent", "unknown", "rejected", "recoverUnknown"}
  BY <1>2, DispatchAssumption DEF DispatchAssumption, Decisions, Deferral
<1>4. ~Called(w)' /\ ~Called(w)
  BY <1>1, <1>2, <1>3 DEF Called, SendInv, Types
<1>5. \A v \in Workers \ {w} : step'[v] = step[v] /\ plan'[v] = plan[v]
  BY <1>2 DEF Decide, GoTo, SendInv, Types
<1>6. ListsAreFresh' /\ CallsAreCounted' /\ SendsBounded'
  BY <1>1, <1>4, <1>5 DEF CallsInv, ListsAreFresh, CallsAreCounted, SendsBounded, Called
<1>7. QED
  BY <1>6 DEF CallsInv

\* The call: the row has an attempt left, and the call is its holder's.
LEMMA DeliverKeepsCalls ==
  ASSUME SendInv, TypeInv, CallsInv, NEW w \in Workers, Deliver(w)
  PROVE  CallsInv'
<1> USE DEF rowVars, lockVars, batchVars, webhookVars, providerVars, outside
<1>0. PICK d \in Dispatches : d = row[w]
  BY DEF Deliver, At, SendInv, Held, Holding
<1>1. /\ UNCHANGED <<attempts, seen, phase, todo, row, status>>
      /\ step[w] = "sending" /\ step' = [step EXCEPT ![w] = "write"]
      /\ calls' = [calls EXCEPT ![d] = IF @ > MaxSendAttempts THEN @ ELSE @ + 1]
  BY <1>0 DEF Deliver, At, GoTo
<1>2. PICK p \in {"sent", "unknown", "rejected", "recoverUnknown"} : plan' = [plan EXCEPT ![w] = p]
  BY DEF Deliver
<1>3. /\ attempts[d] \in Nat /\ calls[d] \in Nat /\ attempts[d] < MaxSendAttempts
      /\ MaxSendAttempts \in Nat /\ calls[d] <= attempts[d]
  BY <1>0, <1>1, DispatchAssumption
  DEF DispatchAssumption, TypeInv, Rows, Outside, Counted, CallsInv, CallsAreCounted, Called
<1>4. calls'[d] = calls[d] + 1 /\ \A e \in Dispatches \ {d} : calls'[e] = calls[e]
  BY <1>1, <1>3 DEF TypeInv, Outside
<1>5. Called(w)' /\ \A v \in Workers \ {w} : Called(v)' <=> Called(v)
  BY <1>1, <1>2 DEF Called, SendInv, Types
<1>6. status[d] \notin Waiting /\ \A v \in Workers \ {w} : row[v] # d
  BY <1>0 DEF SendInv, Held, OneHolder
<1>7. ListsAreFresh'
  BY <1>1 DEF CallsInv, ListsAreFresh
<1>8. CallsAreCounted'
  <2>1. \A e \in Dispatches : status'[e] \in Waiting => calls'[e] <= attempts'[e]
    BY <1>1, <1>4, <1>6 DEF CallsInv, CallsAreCounted
  <2>2. \A v \in Workers \ {w} : row'[v] \in Dispatches =>
          calls'[row'[v]] <= attempts'[row'[v]] + IF Called(v)' THEN 1 ELSE 0
    BY <1>1, <1>4, <1>5, <1>6 DEF CallsInv, CallsAreCounted
  <2>3. calls'[row'[w]] <= attempts'[row'[w]] + 1
    BY <1>0, <1>1, <1>3, <1>4
  <2>4. QED
    BY <1>5, <2>1, <2>2, <2>3 DEF CallsAreCounted
<1>9. SendsBounded'
  BY <1>3, <1>4 DEF CallsInv, SendsBounded
<1>10. QED
  BY <1>7, <1>8, <1>9 DEF CallsInv

LEMMA WriteKeepsCalls ==
  ASSUME SendInv, TypeInv, CallsInv, NEW w \in Workers, WriteStatus(w)
  PROVE  CallsInv'
<1> USE DEF rowVars, lockVars, batchVars, webhookVars, providerVars, outside
<1>0. PICK d \in Dispatches : d = row[w]
  BY DEF WriteStatus, At, SendInv, Held, Holding
<1>1. /\ UNCHANGED <<attempts, calls, seen, phase, todo>> /\ step[w] = "write"
      /\ plan[w] \in DOMAIN Written /\ SetStatus({d}, Written[plan[w]])
      /\ row' = [row EXCEPT ![w] = NoDispatch]
      /\ \A v \in Workers \ {w} : step'[v] = step[v] /\ plan'[v] = plan[v]
  BY <1>0 DEF WriteStatus, At, RowDone, GoTo, SendInv, Types
<1>2. NoDispatch \notin Dispatches
  BY DispatchAssumption DEF DispatchAssumption
<1>3. row'[w] = NoDispatch /\ \A v \in Workers \ {w} : row'[v] = row[v]
  BY <1>1 DEF SendInv, Types
<1>4. \A e \in Dispatches \ {d} : status'[e] = status[e]
  BY <1>1 DEF SetStatus
<1>5. status'[d] \in Waiting => calls[d] <= attempts[d]
  <2>1. status'[d] = Written[plan[w]]
    BY <1>1 DEF SetStatus
  <2>2. Written[plan[w]] \in Waiting => plan[w] \in {"release", "defer"}
    BY <1>1 DEF Written, Waiting
  <2>3. plan[w] \in {"release", "defer"} => calls[d] <= attempts[d] + 0
    BY <1>0 DEF CallsInv, CallsAreCounted, Called
  <2>4. QED
    BY <2>1, <2>2, <2>3 DEF TypeInv, Rows
<1>6. ListsAreFresh'
  BY <1>1, <1>2, <1>3 DEF CallsInv, ListsAreFresh
<1>7. CallsAreCounted' /\ SendsBounded'
  BY <1>1, <1>2, <1>3, <1>4, <1>5 DEF CallsInv, CallsAreCounted, SendsBounded, Called
<1>8. QED
  BY <1>6, <1>7 DEF CallsInv

\* The attempt is counted from the list, which no other batch has outdated.
LEMMA RetryKeepsCalls ==
  ASSUME SendInv, TypeInv, CallsInv, OneBatch, NEW w \in Workers, RetryOrFail(w)
  PROVE  CallsInv'
<1> USE DEF rowVars, lockVars, batchVars, webhookVars, providerVars, outside
<1>0. PICK d \in Dispatches : d = row[w]
  BY DEF RetryOrFail, At, SendInv, Held, Holding
<1>1. /\ UNCHANGED <<calls, seen, phase, todo>> /\ step[w] = "write" /\ phase[w] = "in"
      /\ attempts' = [attempts EXCEPT ![d] = seen[w][d] + 1]
      /\ \E s : SetStatus({d}, s)
      /\ row' = [row EXCEPT ![w] = NoDispatch]
      /\ \A v \in Workers \ {w} : step'[v] = step[v] /\ plan'[v] = plan[v]
  BY <1>0 DEF RetryOrFail, At, RowDone, GoTo, SendInv, Types
<1>2. NoDispatch \notin Dispatches
  BY DispatchAssumption DEF DispatchAssumption
<1>3. row'[w] = NoDispatch /\ \A v \in Workers \ {w} : row'[v] = row[v]
  BY <1>1 DEF SendInv, Types
<1>4. \A e \in Dispatches \ {d} : status'[e] = status[e] /\ attempts'[e] = attempts[e]
  BY <1>1 DEF SetStatus, TypeInv, Rows
<1>5. attempts'[d] = attempts[d] + 1 /\ attempts[d] \in Nat /\ calls[d] \in Nat
  BY <1>0, <1>1 DEF CallsInv, ListsAreFresh, TypeInv, Rows, Outside
<1>6. calls[d] <= attempts[d] + 1
  BY <1>0, <1>5 DEF CallsInv, CallsAreCounted
<1>7. \A v \in Workers \ {w} : todo[v] = {} /\ row[v] \notin Dispatches
  BY <1>1 DEF OneBatch, Lock!OneBatchAtATime, CallsInv, ListsAreFresh, SendInv, Held
<1>8. d \notin todo[w]
  BY <1>0 DEF CallsInv, ListsAreFresh
<1>9. ListsAreFresh'
  <2>1. \A e \in todo[w] : e \in Dispatches \ {d}
    BY <1>8 DEF SendInv, Types
  <2>2. QED
    BY <1>1, <1>2, <1>3, <1>4, <1>7, <2>1 DEF CallsInv, ListsAreFresh
<1>10. CallsAreCounted' /\ SendsBounded'
  BY <1>1, <1>2, <1>3, <1>4, <1>5, <1>6, <1>7 DEF CallsInv, CallsAreCounted, SendsBounded
<1>11. QED
  BY <1>9, <1>10 DEF CallsInv

LEMMA LettingGoKeepsCalls ==
  ASSUME SendInv, TypeInv, CallsInv, NEW w \in Workers, WriteThrows(w) \/ EndBatch(w) \/ Die(w)
  PROVE  CallsInv'
<1> USE DEF rowVars, lockVars, batchVars, webhookVars, providerVars, outside
<1>0. NoDispatch \notin Dispatches
  BY DispatchAssumption DEF DispatchAssumption
<1>1. /\ UNCHANGED <<attempts, calls, status>>
      /\ \A v \in Workers \ {w} : /\ row'[v] = row[v] /\ plan'[v] = plan[v]
                                  /\ step'[v] = step[v] /\ phase'[v] = phase[v]
                                  /\ todo'[v] = todo[v] /\ seen'[v] = seen[v]
  BY DEF WriteThrows, EndBatch, Die, Forget, RowDone, GoTo, Lock!ReleaseRead, Lock!Die,
         SendInv, Types, TypeInv, Batches
<1>2. SendsBounded'
  BY <1>1 DEF CallsInv, SendsBounded
<1>3. CASE row'[w] = NoDispatch /\ todo'[w] = {}
  <2>1. ListsAreFresh' /\ CallsAreCounted'
    BY <1>0, <1>1, <1>3 DEF CallsInv, ListsAreFresh, CallsAreCounted, Called
  <2>2. QED
    BY <1>2, <2>1 DEF CallsInv
<1>4. CASE WriteThrows(w) /\ plan[w] \notin Recovery
  <2>1. /\ UNCHANGED <<row, step, todo, seen, phase>> /\ step[w] = "write"
        /\ plan' = [plan EXCEPT ![w] = IF plan[w] \in BeforeSend
                                       THEN "recoverRetry" ELSE "recoverUnknown"]
    BY <1>4 DEF WriteThrows, At
  <2>2. Called(w) => Called(w)'
    BY <2>1 DEF Called, BeforeSend, SendInv, Types
  <2>3. row[w] \in Dispatches =>
          calls[row[w]] <= attempts[row[w]] + IF Called(w)' THEN 1 ELSE 0
    BY <2>2 DEF CallsInv, CallsAreCounted, TypeInv, Rows, Outside
  <2>4. ListsAreFresh' /\ CallsAreCounted'
    BY <1>1, <2>1, <2>3 DEF CallsInv, ListsAreFresh, CallsAreCounted, Called
  <2>5. QED
    BY <1>2, <2>4 DEF CallsInv
<1>5. CASE WriteThrows(w) /\ plan[w] \in Recovery
  <2>1. row'[w] = NoDispatch /\ todo'[w] = {}
    BY <1>5 DEF WriteThrows, RowDone, SendInv, Types
  <2>2. QED
    BY <1>3, <2>1
<1>6. CASE EndBatch(w) \/ Die(w)
  <2>1. row'[w] = NoDispatch /\ todo'[w] = {}
    BY <1>6 DEF EndBatch, Die, Forget, RowDone, SendInv, Types
  <2>2. QED
    BY <1>3, <2>1
<1>7. QED
  BY <1>4, <1>5, <1>6

LEMMA CallsInvStep ==
  ASSUME SendInv, TypeInv, CallsInv, OneBatch, [Next]_vars
  PROVE  CallsInv'
<1>1. ASSUME NEW w \in Workers, Batch(w) \/ Fault(w) PROVE CallsInv'
  BY <1>1, QuietBatchKeepsCalls, ClaimKeepsCalls, DecideKeepsCalls, DeliverKeepsCalls,
     WriteKeepsCalls, RetryKeepsCalls, LettingGoKeepsCalls DEF Batch, Fault, QuietBatch
<1>2. CASE UNCHANGED vars
  BY <1>2 DEF vars, CallsInv, ListsAreFresh, CallsAreCounted, SendsBounded, Called
<1>3. QED
  BY <1>1, <1>2, OutsideKeepsCalls DEF Next

(* While batches do not overlap the provider is called at most             *)
(* MAX_SEND_ATTEMPTS times for a row, deaths, faults and stale rows        *)
(* included.                                                               *)
THEOREM CallsStayBounded == Spec /\ []OneBatch => []SendsBounded
<1>1. SendInv /\ TypeInv /\ CallsInv /\ OneBatch /\ [Next]_vars => SendInv' /\ TypeInv' /\ CallsInv'
  BY SendInvStep, TypeInvStep, CallsInvStep
<1>2. CallsInv => SendsBounded
  BY DEF CallsInv
<1>3. QED
  BY <1>1, <1>2, SendInvInit, TypeInvInit, CallsInvInit, PTL DEF Spec

(* Between the decision to send and the call nothing but the webhook and   *)
(* the enqueueing services changes a row.                                  *)

StillSending(w) == step[w] = "sending" /\ step'[w] = "sending"

LEMMA SenderIsAlone ==
  ASSUME SendInv, OneBatch, [Next]_vars, NEW w \in Workers, StillSending(w)
  PROVE  /\ row'[w] = row[w] /\ row[w] \in Dispatches
         /\ \A d \in Dispatches : \/ status'[d] = status[d]
                                  \/ status[d] = "absent"
                                  \/ status'[d] \notin Open
         /\ \/ \E h \in Handlers : ApplyEvent(h)
            \/ /\ recent' \subseteq recent
               /\ \A d \in Dispatches : status'[d] = "SENT" => status[d] = "SENT"
<1> USE DEF rowVars, lockVars, batchVars, webhookVars, providerVars, outside
<1>0. row[w] \in Dispatches /\ phase[w] = "in" /\ step[w] = "sending"
  BY DEF SendInv, Held, Holding, StillSending
<1>1. CASE Enqueue
  <2>1. /\ UNCHANGED <<row, recent>>
        /\ \A d \in Dispatches : \/ status'[d] = status[d]
                                 \/ status[d] = "absent" /\ status'[d] = "PENDING"
    BY <1>1 DEF Enqueue, EnqueueRelationshipForVerifiedUser, EnqueuePurchaseConfirmation, Insert,
       CheckRecentOffer, EnqueueMockInterviewOffer, SetStatus
  <2>2. QED
    BY <1>0, <2>1
<1>2. ASSUME NEW v \in Workers, Batch(v) \/ Fault(v)
      PROVE  \/ row' = row /\ status' = status /\ recent' = recent
             \/ v # w /\ row'[w] = row[w] /\ status' = status /\ recent' = recent
  <2>1. CASE phase[v] = "in"
    <3>1. v = w
      BY <1>0, <2>1 DEF OneBatch, Lock!OneBatchAtATime
    <3>2. step'[w] = "sending"
      BY DEF StillSending
    <3>3. FALSE
      BY <1>0, <1>2, <3>1, <3>2 DEF Batch, Fault, StartBatch, Lock!AcquireRead, TakeLock,
         Lock!AcquireUpsert, RecoverStaleProcessing, ExpireOverdue, ListDue, Claim, Decide, Deliver,
         WriteStatus, RetryOrFail, EnqueueSecondCall, EndBatch, DropLock, Lock!ReleaseDelete,
         WriteThrows, BatchThrows, Die, Forget, At, GoTo, SendInv, Types
    <3>4. QED
      BY <3>3
  <2>2. CASE phase[v] # "in"
    <3>1. v # w
      BY <1>0, <2>2
    <3>2. StartBatch(v) \/ TakeLock(v) \/ DropLock(v) \/ Die(v)
      BY <1>2, <2>2 DEF Batch, Fault, RecoverStaleProcessing, ExpireOverdue, ListDue, Claim, Decide,
         Deliver, WriteStatus, RetryOrFail, EnqueueSecondCall, EndBatch, WriteThrows, BatchThrows, At
    <3>3. status' = status /\ recent' = recent /\ row'[w] = row[w]
      BY <3>1, <3>2 DEF StartBatch, TakeLock, DropLock, Die, Forget, RowDone, SendInv, Types
    <3>4. QED
      BY <3>1, <3>3
  <2>3. QED
    BY <2>1, <2>2
<1>3. ASSUME NEW h \in Handlers, Webhook(h)
      PROVE  /\ row' = row
             /\ \A d \in Dispatches : status'[d] = status[d] \/ status'[d] \notin Open
             /\ ApplyEvent(h) \/ (status' = status /\ recent' = recent)
  BY <1>3 DEF Webhook, ReceiveEvent, RecordEvent, ApplyEvent, DropWebhook, SetStatus, Open
<1>4. CASE Time
  <2>1. row' = row /\ status' = status /\ recent' \subseteq recent
    BY <1>4 DEF Time, LockExpires, SwitchModes, BecomesDue, Expires, GoesStale, GapElapses
  <2>2. QED
    BY <1>0, <2>1
<1>5. CASE UNCHANGED vars
  BY <1>0, <1>5 DEF vars
<1>6. QED
  BY <1>0, <1>1, <1>2, <1>3, <1>4, <1>5 DEF Next

\* A batch that is about to send has just decided to.
LEMMA SenderHasDecided ==
  ASSUME SendInv, [Next]_vars, NEW w \in Workers, step[w] # "sending", step'[w] = "sending"
  PROVE  /\ row' = row /\ status' = status /\ recent' = recent /\ row[w] \in Dispatches
         /\ ~OfferTooRecent(row[w]) /\ ~WaitsForWelcome(row[w])
<1> USE DEF rowVars, lockVars, batchVars, webhookVars, providerVars, outside
<1>1. Decide(w)
  <2>1. step' # step
    OBVIOUS
  <2>2. ASSUME NEW v \in Workers, Batch(v) \/ Fault(v) PROVE v = w /\ Decide(w)
    BY <2>2 DEF Batch, Fault, StartBatch, TakeLock, RecoverStaleProcessing, ExpireOverdue, ListDue,
       Claim, Decide, Deliver, WriteStatus, RetryOrFail, EnqueueSecondCall, EndBatch, DropLock,
       WriteThrows, BatchThrows, Die, Forget, GoTo, SendInv, Types
  <2>3. ~Enqueue /\ ~Time
    BY <2>1 DEF Enqueue, EnqueueRelationshipForVerifiedUser, EnqueuePurchaseConfirmation,
       CheckRecentOffer, EnqueueMockInterviewOffer, Time, LockExpires, SwitchModes, BecomesDue, Expires, GoesStale, GapElapses
  <2>4. \A h \in Handlers : ~Webhook(h)
    BY <2>1 DEF Webhook, ReceiveEvent, RecordEvent, ApplyEvent, DropWebhook
  <2>5. QED
    BY <2>1, <2>2, <2>3, <2>4 DEF Next, vars
<1>2. /\ row' = row /\ status' = status /\ recent' = recent
      /\ row[w] \in Dispatches
  BY <1>1 DEF Decide, At, SendInv, Held, Holding
<1>3. "send" \in Decisions(w)
  BY <1>1 DEF Decide, GoTo, SendInv, Types
<1>4. ~OfferTooRecent(row[w]) /\ ~WaitsForWelcome(row[w])
  BY <1>3, DispatchAssumption DEF DispatchAssumption, Decisions, Deferral
<1>5. QED
  BY <1>2, <1>4

\* The e-mail that a step sends is the one its batch decided on.
LEMMA OnlySenderSends ==
  ASSUME SendInv, [Next]_vars, NEW d \in Dispatches, accepted'[d] > accepted[d]
  PROVE  \E w \in Workers : step[w] = "sending" /\ row[w] = d
<1>1. \E w \in Workers : Deliver(w)
  <2>1. accepted' # accepted
    BY DEF SendInv, Types
  <2>2. QED
    BY <2>1 DEF Next, vars, Enqueue, EnqueueRelationshipForVerifiedUser,
       EnqueuePurchaseConfirmation, CheckRecentOffer, EnqueueMockInterviewOffer, Time, LockExpires, SwitchModes,
       BecomesDue, Expires, GoesStale, GapElapses, Webhook, ReceiveEvent, RecordEvent, ApplyEvent,
       DropWebhook, Batch, Fault, StartBatch, TakeLock, RecoverStaleProcessing, ExpireOverdue,
       ListDue, Claim, Decide, WriteStatus, RetryOrFail, EnqueueSecondCall, EndBatch, DropLock,
       WriteThrows, BatchThrows, Die, providerVars
<1>2. PICK w \in Workers : Deliver(w)
  BY <1>1
<1>3. step[w] = "sending" /\ (accepted' = accepted \/ accepted' = [accepted EXCEPT ![row[w]] = @ + 1])
  BY <1>2 DEF Deliver, At
<1>4. row[w] = d
  BY <1>3 DEF SendInv, Types
<1>5. QED
  BY <1>3, <1>4

(* Offers.                                                                 *)

\* No event of SES is applied between a decision to send and the call.
NoNewsWhileSending ==
  [][(\E w \in Workers : step[w] = "sending") => \A h \in Handlers : ~ApplyEvent(h)]_vars

OfferIsAlone == \A w \in Workers :
  step[w] = "sending" /\ Kind[row[w]] = "MOCK_INTERVIEW_OFFER" =>
    \A p \in OfKind("MOCK_INTERVIEW_OFFER") : p # row[w] => ~RecentlySent(p)

LEMMA OfferIsAloneStep ==
  ASSUME SendInv, OneBatch, OfferIsAlone, [Next]_vars,
         UNCHANGED vars
           \/ ((\E w \in Workers : step[w] = "sending") => \A h \in Handlers : ~ApplyEvent(h))
  PROVE  OfferIsAlone'
<1> SUFFICES ASSUME NEW w \in Workers, step'[w] = "sending",
                    Kind[row'[w]] = "MOCK_INTERVIEW_OFFER",
                    NEW p \in OfKind("MOCK_INTERVIEW_OFFER"), p # row'[w]
             PROVE  ~RecentlySent(p)'
  BY DEF OfferIsAlone, OfKind
<1>0. p \in Dispatches
  BY DEF OfKind
<1>1. CASE step[w] = "sending"
  <2>1. CASE UNCHANGED vars
    BY <1>1, <2>1 DEF vars, OfferIsAlone, RecentlySent
  <2>2. CASE \A h \in Handlers : ~ApplyEvent(h)
    <3>1. /\ row'[w] = row[w] /\ recent' \subseteq recent
          /\ \A d \in Dispatches : status'[d] = "SENT" => status[d] = "SENT"
      BY <1>1, <2>2, SenderIsAlone DEF StillSending
    <3>2. QED
      BY <1>0, <1>1, <3>1 DEF OfferIsAlone, RecentlySent
  <2>3. QED
    BY <1>1, <2>1, <2>2
<1>2. CASE step[w] # "sending"
  <2>1. /\ row' = row /\ status' = status /\ recent' = recent /\ ~OfferTooRecent(row[w])
    BY <1>2, SenderHasDecided
  <2>2. QED
    BY <2>1 DEF OfferTooRecent, RecentlySent
<1>3. QED
  BY <1>1, <1>2

(* An offer recorded as SENT within the cooldown keeps the others back,    *)
(* also one enqueued in a race with it, while batches do not overlap and   *)
(* no event is applied between a decision to send and the call.            *)
THEOREM OffersAreSpaced == Spec /\ []OneBatch /\ NoNewsWhileSending => RecordedOfferKeepsOthersBack
<1> DEFINE Silent == (\E w \in Workers : step[w] = "sending") => \A h \in Handlers : ~ApplyEvent(h)
           Back == \A o, p \in OfKind("MOCK_INTERVIEW_OFFER") :
                     o # p /\ accepted'[o] > accepted[o] => ~RecentlySent(p)
<1>1. Init => OfferIsAlone
  BY DEF Init, OfferIsAlone
<1>2. SendInv /\ OneBatch /\ OfferIsAlone /\ [Next]_vars /\ [Silent]_vars => OfferIsAlone'
  BY OfferIsAloneStep
<1>3. SendInv /\ OfferIsAlone /\ [Next]_vars => Back
  <2> SUFFICES ASSUME SendInv, OfferIsAlone, [Next]_vars,
                      NEW o \in OfKind("MOCK_INTERVIEW_OFFER"),
                      NEW p \in OfKind("MOCK_INTERVIEW_OFFER"),
                      o # p, accepted'[o] > accepted[o]
               PROVE  ~RecentlySent(p)
    OBVIOUS
  <2>1. o \in Dispatches /\ Kind[o] = "MOCK_INTERVIEW_OFFER"
    BY DEF OfKind
  <2>2. PICK w \in Workers : step[w] = "sending" /\ row[w] = o
    BY <2>1, OnlySenderSends
  <2>3. QED
    BY <2>1, <2>2 DEF OfferIsAlone
<1>4. SendInv /\ OfferIsAlone /\ [Next]_vars => [Back]_vars
  BY <1>3
<1> HIDE DEF Silent, Back
<1>5. Spec /\ []OneBatch /\ [][Silent]_vars => [][Back]_vars
  BY <1>1, <1>2, <1>4, SendInvInit, SendInvStep, PTL DEF Spec
<1>6. QED
  BY <1>5 DEF Silent, Back, NoNewsWhileSending, RecordedOfferKeepsOthersBack

(* The welcome and the first feedback.                                     *)

\* Who is to get the first feedback is to get the welcome too.
WelcomeComesToo ==
  \A kinds \in EnqueuedTogether : "FEEDBACK_FIRST_USE" \in kinds => "WELCOME" \in kinds

\* What SES reports on did leave.
NewsOfSent == \A h \in Handlers : webhook[h] # "idle" => accepted[event[h].dispatch] # 0

\* The welcome has its row when the feedback has, and has ended, for good,
\* when the feedback is about to be sent.
WelcomeFirst ==
  \A f \in OfKind("FEEDBACK_FIRST_USE"), v \in OfKind("WELCOME") :
    /\ status[f] # "absent" => status[v] # "absent"
    /\ \A w \in Workers : step[w] = "sending" /\ row[w] = f => status[v] \notin Open

FeedbackInv == checked \subseteq OfKind("MOCK_INTERVIEW_OFFER") /\ NewsOfSent /\ WelcomeFirst

LEMMA NewsStep ==
  ASSUME SendInv, TypeInv, NewsOfSent, [Next]_vars
  PROVE  NewsOfSent'
<1> USE DEF rowVars, lockVars, batchVars, webhookVars, providerVars, outside
<1>1. CASE UNCHANGED <<webhook, event>>
  <2>1. \A d \in Dispatches : accepted[d] # 0 => accepted'[d] # 0
    <3>1. ASSUME NEW w \in Workers, Deliver(w)
          PROVE  /\ row[w] \in Dispatches
                 /\ accepted' = accepted \/ accepted' = [accepted EXCEPT ![row[w]] = @ + 1]
      BY <3>1 DEF Deliver, At, SendInv, Held, Holding
    <3>2. CASE \A w \in Workers : ~Deliver(w)
      <4>1. accepted' = accepted
        BY <3>2 DEF Next, vars, Enqueue, EnqueueRelationshipForVerifiedUser,
           EnqueuePurchaseConfirmation, CheckRecentOffer, EnqueueMockInterviewOffer, Time,
           LockExpires, SwitchModes, BecomesDue, Expires, GoesStale, GapElapses, Webhook, ReceiveEvent,
           RecordEvent, ApplyEvent, DropWebhook, Batch, Fault, StartBatch, TakeLock,
           RecoverStaleProcessing, ExpireOverdue, ListDue, Claim, Decide, WriteStatus,
           RetryOrFail, EnqueueSecondCall, EndBatch, DropLock, WriteThrows, BatchThrows, Die
      <4>2. QED
        BY <4>1
    <3>3. QED
      BY <3>1, <3>2 DEF SendInv, Types
  <2>2. \A h \in Handlers : webhook[h] # "idle" => event[h].dispatch \in Dispatches
    BY DEF TypeInv, Hooks, Events
  <2>3. QED
    BY <1>1, <2>1, <2>2 DEF NewsOfSent
<1>2. ASSUME NEW h \in Handlers, Webhook(h) PROVE NewsOfSent'
  <2>1. accepted' = accepted /\ \A g \in Handlers \ {h} : webhook'[g] = webhook[g] /\ event'[g] = event[g]
    BY <1>2 DEF Webhook, ReceiveEvent, RecordEvent, ApplyEvent, DropWebhook, FinishWebhook,
       TypeInv, Hooks
  <2>2. webhook'[h] = "idle" \/ (webhook[h] # "idle" /\ event'[h] = event[h])
          \/ accepted[event'[h].dispatch] # 0
    BY <1>2 DEF Webhook, ReceiveEvent, RecordEvent, ApplyEvent, DropWebhook, FinishWebhook,
       TypeInv, Hooks, SendInv, Types, Events
  <2>3. QED
    BY <2>1, <2>2 DEF NewsOfSent
<1>3. CASE \A h \in Handlers : ~Webhook(h)
  <2>1. ASSUME NEW w \in Workers, Batch(w) \/ Fault(w) PROVE UNCHANGED <<webhook, event>>
    BY <2>1 DEF Batch, Fault, StartBatch, TakeLock, RecoverStaleProcessing, ExpireOverdue, ListDue,
       Claim, Decide, Deliver, WriteStatus, RetryOrFail, EnqueueSecondCall, EndBatch, DropLock,
       WriteThrows, BatchThrows, Die
  <2>2. EnqueueRelationshipForVerifiedUser => UNCHANGED <<webhook, event>>
    BY DEF EnqueueRelationshipForVerifiedUser
  <2>3. ASSUME NEW d \in Dispatches,
               EnqueuePurchaseConfirmation(d) \/ CheckRecentOffer(d)
                 \/ EnqueueMockInterviewOffer(d)
        PROVE  UNCHANGED <<webhook, event>>
    BY <2>3 DEF EnqueuePurchaseConfirmation, CheckRecentOffer, EnqueueMockInterviewOffer
  <2>4. Time => UNCHANGED <<webhook, event>>
    BY DEF Time, LockExpires, SwitchModes, BecomesDue, Expires, GoesStale, GapElapses
  <2>5. UNCHANGED vars => UNCHANGED <<webhook, event>>
    BY DEF vars
  <2>6. UNCHANGED <<webhook, event>>
    <3>1. CASE \E w \in Workers : Batch(w) \/ Fault(w)
      BY <2>1, <3>1
    <3>2. CASE Enqueue
      BY <2>2, <2>3, <3>2 DEF Enqueue
    <3>3. QED
      BY <1>3, <2>4, <2>5, <3>1, <3>2 DEF Next
  <2>7. QED
    BY <1>1, <2>6
<1>4. QED
  BY <1>2, <1>3

\* A row that is there stays, and only the verified address brings a feedback.
LEMMA RowsAppear ==
  ASSUME SendInv, TypeInv, FeedbackInv, [Next]_vars
  PROVE  /\ \A d \in Dispatches : status[d] # "absent" => status'[d] # "absent"
         /\ checked' \subseteq OfKind("MOCK_INTERVIEW_OFFER")
         /\ \/ EnqueueRelationshipForVerifiedUser
            \/ \A f \in OfKind("FEEDBACK_FIRST_USE") : status'[f] # "absent" => status[f] # "absent"
<1> USE DEF rowVars, lockVars, batchVars, webhookVars, providerVars, outside
<1> DEFINE Kept == \A d \in Dispatches : status'[d] = "absent" <=> status[d] = "absent"
<1>1. CASE Enqueue
  <2>1. ASSUME NEW S, Insert(S)
        PROVE  /\ \A d \in Dispatches : status[d] # "absent" => status'[d] # "absent"
               /\ \A d \in Dispatches \ S : status'[d] = status[d]
    BY <2>1 DEF Insert
  <2>2. CASE EnqueueRelationshipForVerifiedUser
    BY <2>1, <2>2 DEF EnqueueRelationshipForVerifiedUser, FeedbackInv
  <2>3. ASSUME NEW d \in Dispatches, EnqueueMockInterviewOffer(d)
        PROVE  /\ \A e \in Dispatches : status[e] # "absent" => status'[e] # "absent"
               /\ \A f \in OfKind("FEEDBACK_FIRST_USE") : status'[f] = status[f]
               /\ checked' \subseteq checked
    <3>1. Insert({d}) /\ Kind[d] = "MOCK_INTERVIEW_OFFER" /\ checked' \subseteq checked
      BY <2>3 DEF EnqueueMockInterviewOffer, FeedbackInv, OfKind
    <3>2. QED
      BY <2>1, <3>1 DEF OfKind
  <2>4. ASSUME NEW d \in Dispatches, EnqueuePurchaseConfirmation(d)
        PROVE  /\ \A e \in Dispatches : status[e] # "absent" => status'[e] # "absent"
               /\ \A f \in OfKind("FEEDBACK_FIRST_USE") : status'[f] = status[f]
               /\ checked' = checked
    BY <2>4 DEF EnqueuePurchaseConfirmation, SetStatus, OfKind
  <2>5. ASSUME NEW d \in Dispatches, CheckRecentOffer(d)
        PROVE  status' = status /\ checked' = checked \cup {d} /\ d \in OfKind("MOCK_INTERVIEW_OFFER")
    BY <2>5 DEF CheckRecentOffer, OfKind
  <2>6. QED
    BY <1>1, <2>2, <2>3, <2>4, <2>5 DEF Enqueue, FeedbackInv
<1>2. ASSUME NEW w \in Workers, Batch(w) \/ Fault(w) PROVE checked' = checked
  BY <1>2 DEF Batch, Fault, StartBatch, TakeLock, RecoverStaleProcessing, ExpireOverdue, ListDue,
     Claim, Decide, Deliver, WriteStatus, RetryOrFail, EnqueueSecondCall, EndBatch, DropLock,
     WriteThrows, BatchThrows, Die
<1>3. ASSUME NEW w \in Workers, Batch(w) \/ Fault(w)
      PROVE  \/ Kept
             \/ /\ \A d \in Dispatches : status[d] # "absent" => status'[d] # "absent"
                /\ \A f \in OfKind("FEEDBACK_FIRST_USE") : status'[f] = status[f]
  <2>1. CASE RecoverStaleProcessing(w) \/ ExpireOverdue(w) \/ Claim(w)
    BY <2>1 DEF RecoverStaleProcessing, ExpireOverdue, Claim, Claimable, SetStatus
  <2>2. CASE WriteStatus(w) \/ RetryOrFail(w)
    <3>1. PICK d \in Dispatches : d = row[w] /\ status[d] # "absent"
      BY <2>2 DEF WriteStatus, RetryOrFail, At, SendInv, Held, Holding, Waiting
    <3>2. \E s : SetStatus({d}, s) /\ s # "absent"
      BY <2>2, <3>1 DEF WriteStatus, RetryOrFail, Written
    <3>3. QED
      BY <3>1, <3>2 DEF SetStatus
  <2>3. CASE EnqueueSecondCall(w)
    BY <2>3 DEF EnqueueSecondCall, Insert, OfKind
  <2>4. CASE UNCHANGED status
    BY <2>4
  <2>5. QED
    BY <1>3, <2>1, <2>2, <2>3, <2>4 DEF Batch, Fault, StartBatch, TakeLock, ListDue, Decide,
       Deliver, EndBatch, DropLock, WriteThrows, BatchThrows, Die
<1>4. ASSUME NEW h \in Handlers, Webhook(h) PROVE Kept /\ checked' = checked
  <2>1. CASE ApplyEvent(h)
    <3>1. PICK d \in Dispatches : d = event[h].dispatch
      BY <2>1 DEF ApplyEvent, TypeInv, Hooks, Events
    <3>2. status[d] # "absent"
      BY <2>1, <3>1 DEF ApplyEvent, FeedbackInv, NewsOfSent, SendInv, LeftNeverWaits, Waiting
    <3>3. \E s : SetStatus({d}, s) /\ s # "absent"
      BY <2>1, <3>1 DEF ApplyEvent
    <3>4. QED
      BY <2>1, <3>2, <3>3 DEF ApplyEvent, SetStatus
  <2>2. QED
    BY <1>4, <2>1 DEF Webhook, ReceiveEvent, RecordEvent, DropWebhook
<1>5. CASE Time
  BY <1>5 DEF Time, LockExpires, SwitchModes, BecomesDue, Expires, GoesStale, GapElapses, FeedbackInv
<1>6. CASE UNCHANGED vars
  BY <1>6 DEF vars, FeedbackInv
<1>7. QED
  BY <1>1, <1>2, <1>3, <1>4, <1>5, <1>6 DEF Next, FeedbackInv, OfKind

LEMMA FeedbackInvStep ==
  ASSUME WelcomeComesToo, SendInv, TypeInv, OneBatch, FeedbackInv, [Next]_vars
  PROVE  FeedbackInv'
<1>1. ASSUME NEW f \in OfKind("FEEDBACK_FIRST_USE"), NEW v \in OfKind("WELCOME"),
             status'[f] # "absent"
      PROVE  status'[v] # "absent"
  <2>0. f \in Dispatches /\ v \in Dispatches
    BY DEF OfKind
  <2>1. CASE status[f] # "absent"
    BY <2>0, <2>1, RowsAppear DEF FeedbackInv, WelcomeFirst
  <2>2. CASE status[f] = "absent" /\ EnqueueRelationshipForVerifiedUser
    <3>1. PICK kinds \in EnqueuedTogether : Insert(UNION {OfKind(k) : k \in kinds})
      BY <2>2 DEF EnqueueRelationshipForVerifiedUser
    <3>2. "FEEDBACK_FIRST_USE" \in kinds
      BY <1>1, <2>0, <2>2, <3>1 DEF Insert, OfKind
    <3>3. v \in UNION {OfKind(k) : k \in kinds}
      BY <3>2 DEF WelcomeComesToo
    <3>4. QED
      BY <2>0, <3>1, <3>3 DEF Insert
  <2>3. QED
    BY <1>1, <2>1, <2>2, RowsAppear
<1>2. ASSUME NEW f \in OfKind("FEEDBACK_FIRST_USE"), NEW v \in OfKind("WELCOME"),
             NEW w \in Workers, step'[w] = "sending", row'[w] = f
      PROVE  status'[v] \notin Open
  <2>0. f \in Dispatches /\ v \in Dispatches /\ Kind[f] = "FEEDBACK_FIRST_USE"
    BY DEF OfKind
  <2>1. CASE step[w] = "sending"
    <3>1. /\ row[w] = f
          /\ status'[v] = status[v] \/ status[v] = "absent" \/ status'[v] \notin Open
      BY <1>2, <2>0, <2>1, SenderIsAlone DEF StillSending
    <3>2. status[f] # "absent"
      BY <2>0, <3>1 DEF SendInv, Held, Waiting
    <3>3. QED
      BY <2>1, <3>1, <3>2 DEF FeedbackInv, WelcomeFirst
  <2>2. CASE step[w] # "sending"
    <3>1. row[w] = f /\ status' = status /\ ~WaitsForWelcome(f)
      BY <1>2, <2>2, SenderHasDecided
    <3>2. QED
      BY <2>0, <3>1 DEF WaitsForWelcome
  <2>3. QED
    BY <2>1, <2>2
<1>3. WelcomeFirst'
  BY <1>1, <1>2 DEF WelcomeFirst, OfKind
<1>4. checked' \subseteq OfKind("MOCK_INTERVIEW_OFFER") /\ NewsOfSent'
  BY RowsAppear, NewsStep DEF FeedbackInv
<1>5. QED
  BY <1>3, <1>4 DEF FeedbackInv, OfKind

(* The first feedback never leaves while the welcome is still to be sent,  *)
(* while batches do not overlap and who gets the one gets the other: a     *)
(* welcome enqueued after the feedback would find it on its way.           *)
THEOREM FeedbackWaits ==
  ASSUME WelcomeComesToo PROVE Spec /\ []OneBatch => FeedbackWaitsForWelcome
<1> DEFINE Waits == \A f \in OfKind("FEEDBACK_FIRST_USE"), v \in OfKind("WELCOME") :
                      accepted'[f] > accepted[f] => status[v] \notin Open
<1>1. Init => FeedbackInv
  BY DEF Init, FeedbackInv, NewsOfSent, WelcomeFirst, OfKind
<1>2. SendInv /\ TypeInv /\ OneBatch /\ FeedbackInv /\ [Next]_vars => FeedbackInv'
  BY FeedbackInvStep
<1>3. SendInv /\ FeedbackInv /\ [Next]_vars => [Waits]_vars
  <2>1. SUFFICES ASSUME SendInv, FeedbackInv, [Next]_vars,
                        NEW f \in OfKind("FEEDBACK_FIRST_USE"), NEW v \in OfKind("WELCOME"),
                        accepted'[f] > accepted[f]
                 PROVE  status[v] \notin Open
    OBVIOUS
  <2>2. f \in Dispatches
    BY DEF OfKind
  <2>3. PICK w \in Workers : step[w] = "sending" /\ row[w] = f
    BY <2>1, <2>2, OnlySenderSends
  <2>4. QED
    BY <2>1, <2>3 DEF FeedbackInv, WelcomeFirst
<1> HIDE DEF Waits
<1>4. Spec /\ []OneBatch => [][Waits]_vars
  BY <1>1, <1>2, <1>3, SendInvInit, SendInvStep, TypeInvInit, TypeInvStep, PTL DEF Spec
<1>5. QED
  BY <1>4 DEF Waits, FeedbackWaitsForWelcome
=============================================================================
