--------------------------- MODULE PlanPurchases ---------------------------
(***************************************************************************)
(* Plan purchases and the credits they buy: plans.service.ts (checkout,    *)
(* webhook, approval, refund), payments.service.ts (Brick submission,      *)
(* checkout coupon, reconciliation), the credit redemption and the guest   *)
(* claim of cv-adaptation.service.ts, and setCredits of the admin panel.   *)
(*                                                                         *)
(* The database is `purchase', `balance' and `adaptation'.  Requests run   *)
(* concurrently: `request[h]' is what the request in slot h has read so    *)
(* far and the step it takes next.  Postgres runs at READ COMMITTED, so a  *)
(* read and the write that follows it are separate steps unless the write  *)
(* repeats the condition in its WHERE clause.  A transaction is one step   *)
(* from the moment it holds the row locks it writes under until it         *)
(* commits; the refund holds the purchase row while it reads the balance,  *)
(* which is a step of its own.  `payment' is Mercado Pago's side.          *)
(***************************************************************************)
EXTENDS Integers, FiniteSets

CONSTANTS
  Users, Purchases, Adaptations,
  Payments,        \* ids of payments Mercado Pago may create
  Requests,        \* slots for the requests being handled concurrently
  Owner,           \* [Purchases \cup Adaptations -> Users]
  Origin,          \* [Purchases -> Adaptations \cup {NoAdaptation}]: unlock_cv's CV
  Offers,          \* what a plan can cost and grant, by coupon
  BaseOffer,       \* the offer with no coupon
  Price, Credits,  \* [Offers -> Nat]
  MostCredits,     \* no offer grants more
  CheckoutModes,   \* values of PAYMENT_CHECKOUT_MODE during the behavior
  InitialBalance,  \* credits every user starts with
  AdminCredits,    \* balances the admin panel may set
  MaxCrashes,      \* bound on requests that die with the process
  MaxLost,         \* bound on notifications lost to a failed lookup
  NoPayment, NoAdaptation

ASSUME PurchasesAssumption ==
  /\ Owner \in [Purchases \cup Adaptations -> Users]
  /\ Origin \in [Purchases -> Adaptations \cup {NoAdaptation}]
  /\ IsFiniteSet(Requests)
  /\ NoPayment \notin Payments
  /\ NoAdaptation \notin Adaptations
  /\ \A p \in Purchases : Origin[p] # NoAdaptation => Owner[Origin[p]] = Owner[p]
  /\ BaseOffer \in Offers
  /\ Price \in [Offers -> Nat \ {0}]
  /\ Credits \in [Offers -> Nat]
  /\ MostCredits \in Nat \ {0} /\ \A o \in Offers : Credits[o] <= MostCredits
  /\ CheckoutModes \subseteq {"pro", "brick"}
  /\ InitialBalance \in Nat
  /\ AdminCredits \subseteq Nat
  /\ MaxCrashes \in Nat /\ MaxLost \in Nat

VARIABLES
  purchase,     \* PlanPurchase rows
  preferences,  \* offers for which a Checkout Pro link of the purchase exists
  balance,      \* User.creditsRemaining
  adaptation,   \* CvAdaptation.isUnlocked, with its CvUnlock row
  payment,      \* payments at Mercado Pago
  notify,       \* payments with a notification not yet acknowledged
  request,      \* requests being handled
  crashes, lost, \* faults so far
  grants,       \* history: times the credits of a purchase were granted
  reversals,    \* history: times they were reversed
  charges,      \* history: credits charged for unlocking an adaptation
  overwritten   \* history: purchases whose status was written by id over one
                \* that the request did not know of

db == <<purchase, balance, adaptation>>
mp == <<preferences, payment, notify>>
faults == <<crashes, lost>>
history == <<grants, reversals, charges, overwritten>>
vars == <<purchase, preferences, balance, adaptation, payment, notify,
          request, crashes, lost, grants, reversals, charges, overwritten>>

----------------------------------------------------------------------------
Eligible == {"none", "pending", "processing_payment", "pending_payment"}
Statuses == Eligible \cup {"absent", "completed", "failed", "refunded"}
PaymentStatuses == {"pending", "approved", "rejected", "refunded"}

Row == [status : Statuses, offer : Offers, mpPaymentId : Payments \cup {NoPayment}]
NoRow == [status |-> "absent", offer |-> BaseOffer, mpPaymentId |-> NoPayment]

Idle == [step |-> "idle"]
UnlockRequest == [step : {"redeem", "claim"}, adaptation : Adaptations]
PurchaseSteps ==
  {"publish", "look_up", "write_failed", "lock_refund", "reverse",
   "read_eligible", "approve", "lock_submit", "call_provider", "answer"}
Jobs == {"checkout", "webhook", "brick", "reconcile"}
PurchaseRequest ==
  [step : PurchaseSteps,
   job : Jobs,
   purchase : Purchases,
   payment : Payments \cup {NoPayment},
   answer : PaymentStatuses \cup {"error"},
   paid : Offers,     \* what the payment was made for
   seen : Row,        \* the purchase as last read
   funds : Int]       \* the balance as read by the refund

RequestStates == {Idle} \cup UnlockRequest \cup PurchaseRequest

PaymentAtProvider ==
  [status : PaymentStatuses, purchase : Purchases, offer : Offers, via : {"pro", "brick"}]
NoPaymentYet == [status |-> "absent"]
PaymentStates == PaymentAtProvider \cup {NoPaymentYet}

TypeOK ==
  /\ purchase \in [Purchases -> Row]
  /\ preferences \in [Purchases -> SUBSET Offers]
  /\ balance \in [Users -> Int]
  /\ adaptation \in [Adaptations -> {"absent", "locked", "unlocked"}]
  /\ payment \in [Payments -> PaymentStates]
  /\ notify \subseteq Payments
  /\ request \in [Requests -> RequestStates]
  /\ crashes \in 0..MaxCrashes
  /\ lost \in 0..MaxLost
  /\ grants \in [Purchases -> Nat]
  /\ reversals \in [Purchases -> Nat]
  /\ charges \in [Adaptations -> Nat]
  /\ overwritten \subseteq Purchases

Init ==
  /\ purchase = [p \in Purchases |-> NoRow]
  /\ preferences = [p \in Purchases |-> {}]
  /\ balance = [u \in Users |-> InitialBalance]
  /\ adaptation \in [Adaptations -> {"absent", "locked"}]
  /\ payment = [q \in Payments |-> NoPaymentYet]
  /\ notify = {}
  /\ request = [h \in Requests |-> Idle]
  /\ crashes = 0
  /\ lost = 0
  /\ grants = [p \in Purchases |-> 0]
  /\ reversals = [p \in Purchases |-> 0]
  /\ charges = [a \in Adaptations |-> 0]
  /\ overwritten = {}

----------------------------------------------------------------------------
(* Helpers.                                                                *)

IsIdle(h) == request[h].step = "idle"
At(h, step) == request[h].step = step
Finish(h) == request' = [request EXCEPT ![h] = Idle]
AtStep(r, step) == [r EXCEPT !.step = step]
Advance(h, r) == request' = [request EXCEPT ![h] = r]

\* Mutant: the refund locks nothing.
RowNotLocked(p) == FALSE

\* A transaction holds the row lock of p between its conditional update and
\* its commit: every other write of the row waits.
RowLocked(p) ==
  \E h \in Requests : request[h].step = "reverse" /\ request[h].purchase = p

\* The UPDATE of a purchase row.
Write(p, status, id) ==
  purchase' = [purchase EXCEPT ![p] =
    [status |-> status, offer |-> purchase[p].offer, mpPaymentId |-> id]]
SetStatus(p, status) == Write(p, status, purchase[p].mpPaymentId)
SetOffer(p, status, o) ==
  purchase' = [purchase EXCEPT ![p] =
    [status |-> status, offer |-> o, mpPaymentId |-> purchase[p].mpPaymentId]]

\* The status a purchase has for the request that is about to write it by id.
Known(r) ==
  CASE r.step = "publish"      -> "none"
    [] r.step = "write_failed" -> r.seen.status
    [] OTHER                   -> "processing_payment"

\* That write: the purchase may have moved on by now.
WriteById(h, status, id) ==
  LET r == request[h]
      p == r.purchase
  IN
  /\ ~RowLocked(p)
  /\ Write(p, status, id)
  /\ overwritten' = overwritten \cup {q \in {p} : purchase[q].status # Known(r)}
  /\ UNCHANGED <<grants, reversals, charges>>

\* assertAdaptationCanBeAutoUnlocked
CanBeAutoUnlocked(p) == \A a \in Adaptations : Origin[p] = a => adaptation[a] = "locked"

NewRequest(h, step, job, p, q, answer, paid, seen) ==
  Advance(h, [step |-> step, job |-> job, purchase |-> p, payment |-> q,
              answer |-> answer, paid |-> paid, seen |-> seen, funds |-> 0])

----------------------------------------------------------------------------
(* Checkout.                                                               *)

\* createCheckout, no reusable purchase, Checkout Pro: the row stays "none"
\* and a preference is created for it, or that call fails.
CreateCheckoutPro(p, o) ==
  /\ "pro" \in CheckoutModes
  /\ purchase[p].status = "absent"
  /\ CanBeAutoUnlocked(p)
  /\ SetOffer(p, "none", o)
  /\ \E made \in {{}, {o}} : preferences' = [preferences EXCEPT ![p] = made]
  /\ UNCHANGED <<balance, adaptation, payment, notify, request, faults, history>>

\* createCheckout, no reusable purchase, Brick: the row is created "none";
\* the status is set by a second write.
CreateCheckoutBrick(h, p, o) ==
  /\ "brick" \in CheckoutModes
  /\ IsIdle(h)
  /\ purchase[p].status = "absent"
  /\ CanBeAutoUnlocked(p)
  /\ SetOffer(p, "none", o)
  /\ NewRequest(h, "publish", "checkout", p, NoPayment, "pending", o, NoRow)
  /\ UNCHANGED <<balance, adaptation, mp, faults, history>>

PublishBrick(h) ==
  /\ At(h, "publish")
  /\ WriteById(h, "pending", purchase[request[h].purchase].mpPaymentId)
  /\ Finish(h)
  /\ UNCHANGED <<balance, adaptation, mp, faults>>

\* Mutant: any existing purchase is taken for an open one.
AnyStatus(p) == purchase[p].status # "absent"

\* The statuses a checkout may be reused or resumed in.
Open(p) == purchase[p].status \in {"none", "pending"}

\* createCheckout, an identical recent purchase found.
ReuseCheckout(p) ==
  /\ Open(p)
  /\ CanBeAutoUnlocked(p)
  /\ ~RowLocked(p)
  /\ \/ /\ "brick" \in CheckoutModes
        /\ SetStatus(p, "pending")
        /\ UNCHANGED preferences
     \/ /\ "pro" \in CheckoutModes
        /\ preferences' = [preferences EXCEPT ![p] = @ \cup {purchase[p].offer}]
        /\ UNCHANGED purchase
  /\ UNCHANGED <<balance, adaptation, payment, notify, request, faults, history>>

\* resumeCheckout: a Brick checkout only gets its URL again.
ResumeCheckout(p) ==
  /\ "pro" \in CheckoutModes
  /\ Open(p)
  /\ preferences' = [preferences EXCEPT ![p] = @ \cup {purchase[p].offer}]
  /\ UNCHANGED <<db, payment, notify, request, faults, history>>

\* applyCheckoutCoupon: sets, changes or clears the coupon of a pending row.
ApplyCheckoutCoupon(p, o) ==
  /\ purchase[p].status = "pending"
  /\ ~RowLocked(p)
  /\ SetOffer(p, "pending", o)
  /\ UNCHANGED <<balance, adaptation, mp, request, faults, history>>

----------------------------------------------------------------------------
(* Approval, shared by the webhook, the Brick answer and reconciliation.   *)

\* The transaction's read of the row and its eligibility test.
ReadEligible(h) ==
  LET p == request[h].purchase IN
  /\ At(h, "read_eligible")
  /\ IF purchase[p].status \in Eligible
     THEN Advance(h, [AtStep(request[h], "approve") EXCEPT !.seen = purchase[p]])
     ELSE Finish(h)
  /\ UNCHANGED <<db, mp, faults, history>>

\* Mutant: an UPDATE that forgets Checkout Pro's "none".
TransitionsPending(p) == purchase[p].status = "pending"

\* The status the approval requires again in its UPDATE.
Transitions(p) == purchase[p].status \in Eligible

\* The purchase was made to unlock a CV that is still locked.
AutoUnlocks(h) ==
  LET r == request[h] IN
  /\ Origin[r.purchase] # NoAdaptation
  /\ Credits[r.seen.offer] > 0
  /\ adaptation[Origin[r.purchase]] = "locked"

\* applyApprovedPurchaseInsideTransaction.
Approve(h) ==
  LET r == request[h]
      p == r.purchase
      u == Owner[p]
      a == Origin[p]
  IN
  /\ At(h, "approve")
  /\ ~RowLocked(p)
  /\ IF Transitions(p)
     THEN /\ Write(p, "completed", IF r.job = "webhook" /\ r.seen.mpPaymentId = NoPayment
                                   THEN r.payment ELSE purchase[p].mpPaymentId)
          /\ grants' = [grants EXCEPT ![p] = @ + 1]
          /\ IF AutoUnlocks(h)
             THEN /\ balance' = [balance EXCEPT ![u] = @ + Credits[r.seen.offer] - 1]
                  /\ adaptation' = [adaptation EXCEPT ![a] = "unlocked"]
                  /\ charges' = [charges EXCEPT ![a] = @ + 1]
             ELSE /\ balance' = [balance EXCEPT ![u] = @ + Credits[r.seen.offer]]
                  /\ UNCHANGED <<adaptation, charges>>
     ELSE UNCHANGED <<db, grants, charges>>
  /\ Finish(h)
  /\ UNCHANGED <<mp, faults, reversals, overwritten>>

----------------------------------------------------------------------------
(* Webhook.  Mercado Pago may deliver a notification at any time, more     *)
(* than once.                                                              *)

\* resolveMercadoPagoPayment: asks Mercado Pago for the payment.
ReceiveWebhook(h, q) ==
  /\ IsIdle(h)
  /\ payment[q].status # "absent"
  /\ NewRequest(h, "look_up", "webhook", payment[q].purchase, q,
                payment[q].status, payment[q].offer, NoRow)
  /\ notify' = notify \ {q}
  /\ UNCHANGED <<db, preferences, payment, faults, history>>

\* The lookup throws: handleWebhook answers 200 and the notification is gone.
LoseWebhook(q) ==
  /\ q \in notify
  /\ lost < MaxLost
  /\ lost' = lost + 1
  /\ notify' = notify \ {q}
  /\ UNCHANGED <<db, preferences, payment, request, crashes, history>>

\* Mutant: a refund leaves a completed purchase alone.
AfterRefundIgnored(seen) ==
  IF seen.status \in {"completed", "failed", "refunded"} THEN "idle" ELSE "write_failed"

AfterFailure(seen) == IF seen.status \in {"completed", "failed"} THEN "idle" ELSE "write_failed"

AfterRefund(seen) ==
  CASE seen.status = "completed" -> "lock_refund"
    [] seen.status \in {"failed", "refunded"} -> "idle"
    [] OTHER -> "write_failed"

AfterApproval(seen, paid) ==
  IF seen.status = "completed" \/ Price[paid] # Price[seen.offer] THEN "idle" ELSE "read_eligible"

\* findPurchaseForWebhook, outside any transaction, and what the purchase
\* read then makes of the payment's status.
LookUpPurchase(h) ==
  LET r == request[h]
      seen == purchase[r.purchase]
      next == CASE r.answer = "rejected" -> AfterFailure(seen)
                [] r.answer = "refunded" -> AfterRefund(seen)
                [] r.answer = "approved" -> AfterApproval(seen, r.paid)
                [] OTHER -> "idle"
  IN
  /\ At(h, "look_up")
  /\ IF next = "idle"
     THEN Finish(h)
     ELSE Advance(h, [AtStep(r, next) EXCEPT !.seen = seen])
  /\ UNCHANGED <<db, mp, faults, history>>

\* Mutant: the provider's status is stored as it is.
StoreAnswer(h) ==
  /\ At(h, "write_failed")
  /\ WriteById(h, request[h].answer, purchase[request[h].purchase].mpPaymentId)
  /\ Finish(h)
  /\ UNCHANGED <<balance, adaptation, mp, faults>>

\* The row is updated by id alone: the status read may be stale by now.
MarkFailed(h) ==
  LET r == request[h] IN
  /\ At(h, "write_failed")
  /\ WriteById(h, "failed", IF r.answer = "rejected" /\ r.seen.mpPaymentId = NoPayment
                            THEN r.payment ELSE purchase[r.purchase].mpPaymentId)
  /\ Finish(h)
  /\ UNCHANGED <<balance, adaptation, mp, faults>>

\* handleRefundedPayment: the conditional update takes the row lock, then the
\* balance is read without a lock.
LockForRefund(h) ==
  LET p == request[h].purchase IN
  /\ At(h, "lock_refund")
  /\ ~RowLocked(p)
  /\ IF purchase[p].status = "completed"
     THEN Advance(h, [AtStep(request[h], "reverse") EXCEPT !.funds = balance[Owner[p]]])
     ELSE Finish(h)
  /\ UNCHANGED <<db, mp, faults, history>>

Reversible(r) == IF Credits[r.seen.offer] < r.funds THEN Credits[r.seen.offer] ELSE r.funds

ReverseCredits(h) ==
  LET r == request[h]
      p == r.purchase
  IN
  /\ At(h, "reverse")
  /\ SetStatus(p, "refunded")
  /\ balance' = [balance EXCEPT ![Owner[p]] = @ - Reversible(r)]
  /\ reversals' = [reversals EXCEPT ![p] = @ + 1]
  /\ Finish(h)
  /\ UNCHANGED <<adaptation, mp, faults, grants, charges, overwritten>>

----------------------------------------------------------------------------
(* Brick submission.                                                       *)

\* submitBrickPayment up to its first write: reads the row and its price.
SubmitBrickPayment(h, p) ==
  /\ "brick" \in CheckoutModes
  /\ IsIdle(h)
  /\ purchase[p].status = "pending"
  /\ purchase[p].mpPaymentId = NoPayment
  /\ NewRequest(h, "lock_submit", "brick", p, NoPayment, "pending",
                purchase[p].offer, purchase[p])
  /\ UNCHANGED <<db, mp, faults, history>>

\* The conditional update to processing_payment; losing it is a 409.
LockSubmission(h) ==
  LET p == request[h].purchase IN
  /\ At(h, "lock_submit")
  /\ ~RowLocked(p)
  /\ IF purchase[p].status = "pending" /\ purchase[p].mpPaymentId = NoPayment
     THEN SetStatus(p, "processing_payment") /\ Advance(h, AtStep(request[h], "call_provider"))
     ELSE UNCHANGED purchase /\ Finish(h)
  /\ UNCHANGED <<balance, adaptation, mp, faults, history>>

\* No payer e-mail, no client or no notification URL: back to pending.
AbortSubmission(h) ==
  /\ At(h, "call_provider")
  /\ WriteById(h, "pending", purchase[request[h].purchase].mpPaymentId)
  /\ Finish(h)
  /\ UNCHANGED <<balance, adaptation, mp, faults>>

\* Payment.create: the payment exists once Mercado Pago has it, whether its
\* answer arrives or the call ends in an error.
ProviderCreates(h, q, status) ==
  LET r == request[h] IN
  /\ At(h, "call_provider")
  /\ payment[q] = NoPaymentYet
  /\ payment' = [payment EXCEPT ![q] =
       [status |-> status, purchase |-> r.purchase, offer |-> r.paid, via |-> "brick"]]
  /\ notify' = notify \cup {q}
  /\ \E answer \in {status, "error"} :
       Advance(h, [[AtStep(r, "answer") EXCEPT !.payment = q] EXCEPT !.answer = answer])
  /\ UNCHANGED <<db, preferences, faults, history>>

ProviderUnreachable(h) ==
  /\ At(h, "call_provider")
  /\ Advance(h, [AtStep(request[h], "answer") EXCEPT !.answer = "error"])
  /\ UNCHANGED <<db, mp, faults, history>>

\* The status a declined, a pending and a failed call write, by id alone.
AnswerStatus(answer) == IF answer = "rejected" THEN "pending" ELSE "pending_payment"

Paid(answer) == answer = "approved"

AnswerBrick(h) ==
  LET r == request[h]
      p == r.purchase
      id == IF r.answer = "error" THEN purchase[p].mpPaymentId ELSE r.payment
  IN
  /\ At(h, "answer")
  /\ IF Paid(r.answer)
     THEN /\ ~RowLocked(p)
          /\ Write(p, purchase[p].status, id)
          /\ Advance(h, AtStep(r, "read_eligible"))
          /\ UNCHANGED history
     ELSE WriteById(h, AnswerStatus(r.answer), id) /\ Finish(h)
  /\ UNCHANGED <<balance, adaptation, mp, faults>>

----------------------------------------------------------------------------
(* Reconciliation.  The search is by paymentReference, which only Checkout *)
(* Pro payments carry as their external_reference.                         *)

ApprovedByReference(p) ==
  \E q \in Payments : /\ payment[q].status = "approved"
                      /\ payment[q].purchase = p
                      /\ payment[q].via = "pro"

StartReconcile(h, p) ==
  /\ IsIdle(h)
  /\ ApprovedByReference(p)
  /\ NewRequest(h, "read_eligible", "reconcile", p, NoPayment, "approved",
                purchase[p].offer, NoRow)
  /\ UNCHANGED <<db, mp, faults, history>>

\* reconcilePending: the open purchases, "none" not among them.
ReconcilePending(h, p) ==
  /\ purchase[p].status \in Eligible \ {"none"}
  /\ StartReconcile(h, p)

\* reconcileOne: the purchase an administrator asks for.
ReconcileOne(h, p) ==
  /\ purchase[p].status \notin {"absent", "completed"}
  /\ StartReconcile(h, p)

----------------------------------------------------------------------------
(* Spending credits.                                                       *)

\* Mutant: the balance is not tested.
StartUnlockUnchecked(h, a, step) ==
  /\ IsIdle(h)
  /\ Advance(h, [step |-> step, adaptation |-> a])
  /\ UNCHANGED <<db, mp, faults, history>>

\* redeemWithCredit and claimGuest test the balance before their transaction.
\* An adaptation claimed by a guest does not exist until it is claimed.
StartUnlock(h, a, step) ==
  /\ IsIdle(h)
  /\ balance[Owner[a]] >= 1
  /\ Advance(h, [step |-> step, adaptation |-> a])
  /\ UNCHANGED <<db, mp, faults, history>>

RedeemWithCredit(h, a) == adaptation[a] = "locked" /\ StartUnlock(h, a, "redeem")
ClaimGuest(h, a) == adaptation[a] = "absent" /\ StartUnlock(h, a, "claim")

\* Mutant: the transaction trusts the unlock read before it.
StillLockedAsRead(r) == TRUE
\* Inside the transaction: an adaptation unlocked (or a snapshot claimed) in
\* the meantime is left alone, by the check or by the unique index.
StillLocked(r) == adaptation[r.adaptation] = IF r.step = "redeem" THEN "locked" ELSE "absent"

SpendCredit(h) ==
  LET r == request[h]
      a == r.adaptation
  IN
  /\ r.step \in {"redeem", "claim"}
  /\ IF StillLocked(r)
     THEN /\ balance' = [balance EXCEPT ![Owner[a]] = @ - 1]
          /\ adaptation' = [adaptation EXCEPT ![a] = "unlocked"]
          /\ charges' = [charges EXCEPT ![a] = @ + 1]
     ELSE UNCHANGED <<balance, adaptation, charges>>
  /\ Finish(h)
  /\ UNCHANGED <<purchase, mp, faults, grants, reversals, overwritten>>

SetCredits(u, n) ==
  /\ balance' = [balance EXCEPT ![u] = n]
  /\ UNCHANGED <<purchase, adaptation, mp, request, faults, history>>

----------------------------------------------------------------------------
(* Mercado Pago and failures.                                              *)

\* The user pays through a Checkout Pro link, which never expires here.
PayPreference(q, p, o, status) ==
  /\ payment[q] = NoPaymentYet
  /\ o \in preferences[p]
  /\ payment' = [payment EXCEPT ![q] =
       [status |-> status, purchase |-> p, offer |-> o, via |-> "pro"]]
  /\ notify' = notify \cup {q}
  /\ UNCHANGED <<db, preferences, request, faults, history>>

PaymentChanges(q, status) ==
  /\ \/ payment[q].status = "pending" /\ status \in {"approved", "rejected"}
     \/ payment[q].status = "approved" /\ status = "refunded"
  /\ payment' = [payment EXCEPT ![q] = [@ EXCEPT !.status = status]]
  /\ notify' = notify \cup {q}
  /\ UNCHANGED <<db, preferences, request, faults, history>>

\* A request dies with the process: its transaction rolls back, and a webhook
\* that was not answered is delivered again.
Crash(h) ==
  /\ ~IsIdle(h)
  /\ crashes < MaxCrashes
  /\ crashes' = crashes + 1
  /\ notify' = notify \cup {q \in Payments : /\ request[h] \in PurchaseRequest
                                             /\ request[h].job = "webhook"
                                             /\ request[h].payment = q}
  /\ Finish(h)
  /\ UNCHANGED <<db, preferences, payment, lost, history>>

----------------------------------------------------------------------------
Handle(h) ==
  \/ PublishBrick(h) \/ ReadEligible(h) \/ Approve(h)
  \/ LookUpPurchase(h) \/ MarkFailed(h) \/ LockForRefund(h) \/ ReverseCredits(h)
  \/ LockSubmission(h) \/ AbortSubmission(h) \/ ProviderUnreachable(h) \/ AnswerBrick(h)
  \/ \E q \in Payments, s \in PaymentStatuses \ {"refunded"} : ProviderCreates(h, q, s)
  \/ SpendCredit(h)

Start(h) ==
  \/ \E p \in Purchases, o \in Offers : CreateCheckoutBrick(h, p, o)
  \/ \E p \in Purchases : \/ SubmitBrickPayment(h, p)
                          \/ ReconcilePending(h, p)
                          \/ ReconcileOne(h, p)
  \/ \E q \in Payments : ReceiveWebhook(h, q)
  \/ \E a \in Adaptations : RedeemWithCredit(h, a) \/ ClaimGuest(h, a)

Next ==
  \/ \E h \in Requests : Handle(h) \/ Start(h) \/ Crash(h)
  \/ \E p \in Purchases :
       \/ ReuseCheckout(p)
       \/ ResumeCheckout(p)
       \/ \E o \in Offers : CreateCheckoutPro(p, o) \/ ApplyCheckoutCoupon(p, o)
  \/ \E q \in Payments :
       \/ LoseWebhook(q)
       \/ \E s \in PaymentStatuses : PaymentChanges(q, s)
       \/ \E p \in Purchases, o \in Offers, s \in PaymentStatuses \ {"refunded"} :
            PayPreference(q, p, o, s)
  \/ \E u \in Users, n \in AdminCredits : SetCredits(u, n)

Spec == Init /\ [][Next]_vars

\* Requests run to their end and Mercado Pago delivers its notifications.
Deliver(q) == q \in notify /\ \E h \in Requests : ReceiveWebhook(h, q)

FairSpec ==
  /\ Spec
  /\ \A h \in Requests : WF_vars(Handle(h))
  /\ \A q \in Payments : SF_vars(Deliver(q))

----------------------------------------------------------------------------
(* Properties.                                                             *)

PaidFor(p, q) == payment[q].status \in {"approved", "refunded"} /\ payment[q].purchase = p

\* A CV is unlocked for exactly one credit, however many redemptions, claims
\* and purchases race for it (redeemWithCredit, claimGuest, auto-unlock).
UnlockChargedOnce ==
  \A a \in Adaptations : charges[a] = IF adaptation[a] = "unlocked" THEN 1 ELSE 0

\* Credits are granted only for a payment Mercado Pago approved, in every
\* path that ends in applyApprovedPurchaseInsideTransaction.
CreditsWerePaid ==
  \A p \in Purchases : grants[p] > 0 => \E q \in Payments : PaidFor(p, q)

\* handleRefundedPayment reverses a purchase no more often than it was
\* granted, also under duplicated refund notifications.
ReversedOnlyIfGranted ==
  \A p \in Purchases :
    reversals[p] + (IF purchase[p].status = "completed" THEN 1 ELSE 0) <= grants[p]

\* Where credits go: what is spent, granted and reversed is accounted for,
\* also where requests overlap and a status is written twice.
CreditsAreAccounted == UnlockChargedOnce /\ CreditsWerePaid /\ ReversedOnlyIfGranted

\* Concurrent approvals of a purchase credit it once (the "trava atomica" of
\* applyApprovedPurchaseInsideTransaction).
GrantedAtMostOnce == \A p \in Purchases : grants[p] <= 1

\* A settled purchase is never opened for payment again, and a completed one
\* leaves that status only by a refund, however requests overlap and
\* notifications repeat: what takes a purchase back is a write by id over a
\* status the request never saw.
SettledNeverReopens ==
  [][\A p \in Purchases \ overwritten' :
       /\ purchase[p].status \in Statuses \ (Eligible \cup {"absent"}) =>
            purchase'[p].status \notin Eligible
       /\ purchase[p].status = "completed" =>
            purchase'[p].status \in {"completed", "refunded"}]_vars

\* The balance is tested before the transaction that spends from it, so
\* requests that overlap, or an administrator, take it below zero; but a
\* balance that is spent buys nothing more, so never by more than the
\* requests under way at once can hold.
OverdraftBounded ==
  \A u \in Users : balance[u] >= -(MostCredits * Cardinality(Requests))

\* Once a refunded purchase is at rest (all its payments refunded or
\* rejected, all notifications handled, none lost) every grant is reversed,
\* whatever overlaps, unless its status was written over unseen.
AtRest(p) ==
  /\ \A q \in Payments : payment[q].status # "absent" /\ payment[q].purchase = p =>
       payment[q].status \in {"refunded", "rejected"} /\ q \notin notify
  /\ \A h \in Requests : request[h].step \notin {"idle", "redeem", "claim"} =>
       request[h].purchase # p
RefundsAreReversed ==
  lost = 0 => \A p \in Purchases \ overwritten : AtRest(p) => grants[p] = reversals[p]

\* An approved payment takes its purchase out of the open statuses: it is
\* credited, or was settled otherwise before.
ApprovedPurchaseSettles ==
  \A p \in Purchases :
    (\E q \in Payments : payment[q].status = "approved" /\ payment[q].purchase = p)
      ~> purchase[p].status \notin Eligible

\* Checkout Pro keeps the promises of CreditLedger: each approval, reversal
\* and unlock is a step of the ledger, and every other step leaves it alone.
Ledger == INSTANCE CreditLedger WITH
  granted <- {p \in Purchases : grants[p] > 0},
  reversed <- {p \in Purchases : reversals[p] > 0},
  unlocked <- {a \in Adaptations : adaptation[a] = "unlocked"}
LedgerSpec == Ledger!Spec
=============================================================================
