------------------------ MODULE PlanPurchases_proofs ------------------------
(***************************************************************************)
(* Theorems about PlanPurchases, for every number of users, purchases,     *)
(* payments and concurrent requests.                                       *)
(*                                                                         *)
(* In every mode of checkout a CV costs one credit, a grant has its        *)
(* payment and a reversal its grant, and a balance falls no further below  *)
(* zero than the requests at work can take it.  Unless its status was      *)
(* written by id over one the request had not read, a settled purchase     *)
(* stays settled, is credited once and has its credits taken back with its *)
(* payments.  With Checkout Pro alone (ProOnly) the CreditLedger is kept   *)
(* whatever is written over.                                               *)
(***************************************************************************)
EXTENDS PlanPurchases, FiniteSetTheorems, TLAPS

----------------------------------------------------------------------------
(* Types of rows and requests under the updates the actions make.          *)

\* A purchase row has the fields of Row.
LEMMA RowFields ==
  ASSUME NEW r \in Row
  PROVE  r.status \in Statuses /\ r.offer \in Offers /\ r.mpPaymentId \in Payments \cup {NoPayment}
  BY DEF Row

\* Rows built from their parts.
LEMMA RowTyped ==
  ASSUME NEW s \in Statuses, NEW o \in Offers, NEW id \in Payments \cup {NoPayment}
  PROVE  [status |-> s, offer |-> o, mpPaymentId |-> id] \in Row
  BY DEF Row

\* The UPDATE of a row keeps the table typed.
LEMMA WriteTyped ==
  ASSUME purchase \in [Purchases -> Row], NEW p \in Purchases, NEW s \in Statuses,
         NEW id \in Payments \cup {NoPayment}, Write(p, s, id)
  PROVE  purchase' \in [Purchases -> Row]
  BY RowTyped, RowFields DEF Write

LEMMA SetStatusTyped ==
  ASSUME purchase \in [Purchases -> Row], NEW p \in Purchases, NEW s \in Statuses, SetStatus(p, s)
  PROVE  purchase' \in [Purchases -> Row]
  BY WriteTyped, RowFields DEF SetStatus

LEMMA SetOfferTyped ==
  ASSUME purchase \in [Purchases -> Row], NEW p \in Purchases, NEW s \in Statuses,
         NEW o \in Offers, SetOffer(p, s, o)
  PROVE  purchase' \in [Purchases -> Row]
  BY RowTyped, RowFields DEF SetOffer

LEMMA RequestFields ==
  ASSUME NEW r \in PurchaseRequest
  PROVE  /\ r.step \in PurchaseSteps
         /\ r.job \in Jobs
         /\ r.purchase \in Purchases
         /\ r.payment \in Payments \cup {NoPayment}
         /\ r.answer \in PaymentStatuses \cup {"error"}
         /\ r.paid \in Offers
         /\ r.seen \in Row
         /\ r.funds \in Int
  BY DEF PurchaseRequest

\* Going to another step changes nothing else.
LEMMA AtStepTyped ==
  ASSUME NEW r \in PurchaseRequest, NEW s \in PurchaseSteps
  PROVE  /\ AtStep(r, s) \in PurchaseRequest
         /\ AtStep(r, s).step = s
         /\ AtStep(r, s).job = r.job
         /\ AtStep(r, s).purchase = r.purchase
         /\ AtStep(r, s).payment = r.payment
         /\ AtStep(r, s).answer = r.answer
  BY DEF AtStep, PurchaseRequest

LEMMA SeenTyped ==
  ASSUME NEW r \in PurchaseRequest, NEW row \in Row
  PROVE  /\ [r EXCEPT !.seen = row] \in PurchaseRequest
         /\ [r EXCEPT !.seen = row].step = r.step
         /\ [r EXCEPT !.seen = row].job = r.job
         /\ [r EXCEPT !.seen = row].purchase = r.purchase
         /\ [r EXCEPT !.seen = row].payment = r.payment
         /\ [r EXCEPT !.seen = row].answer = r.answer
         /\ [r EXCEPT !.seen = row].seen = row
  BY DEF PurchaseRequest

LEMMA FundsTyped ==
  ASSUME NEW r \in PurchaseRequest, NEW n \in Int
  PROVE  /\ [r EXCEPT !.funds = n] \in PurchaseRequest
         /\ [r EXCEPT !.funds = n].step = r.step
         /\ [r EXCEPT !.funds = n].purchase = r.purchase
  BY DEF PurchaseRequest

LEMMA PaymentTyped ==
  ASSUME NEW r \in PurchaseRequest, NEW q \in Payments
  PROVE  /\ [r EXCEPT !.payment = q] \in PurchaseRequest
         /\ [r EXCEPT !.payment = q].step = r.step
         /\ [r EXCEPT !.payment = q].purchase = r.purchase
         /\ [r EXCEPT !.payment = q].payment = q
  BY DEF PurchaseRequest

LEMMA AnswerTyped ==
  ASSUME NEW r \in PurchaseRequest, NEW a \in PaymentStatuses \cup {"error"}
  PROVE  /\ [r EXCEPT !.answer = a] \in PurchaseRequest
         /\ [r EXCEPT !.answer = a].step = r.step
         /\ [r EXCEPT !.answer = a].purchase = r.purchase
         /\ [r EXCEPT !.answer = a].payment = r.payment
         /\ [r EXCEPT !.answer = a].answer = a
  BY DEF PurchaseRequest

\* A slot at a step of a purchase request holds a purchase request.
LEMMA StepKinds ==
  ASSUME NEW r \in RequestStates
  PROVE  /\ r.step \in {"redeem", "claim"} => r \in UnlockRequest
         /\ r.step \in PurchaseSteps => r \in PurchaseRequest
<1>1. CASE r = Idle
  BY <1>1 DEF Idle, PurchaseSteps
<1>2. CASE r \in UnlockRequest
  <2>1. r.step \in {"redeem", "claim"}
    BY <1>2 DEF UnlockRequest
  <2> QED
    BY <1>2, <2>1 DEF PurchaseSteps
<1>3. CASE r \in PurchaseRequest
  <2>1. r.step \in PurchaseSteps
    BY <1>3, RequestFields
  <2> QED
    BY <1>3, <2>1 DEF PurchaseSteps
<1> QED
  BY <1>1, <1>2, <1>3 DEF RequestStates

LEMMA AdvanceTyped ==
  ASSUME request \in [Requests -> RequestStates], NEW h \in Requests,
         NEW r \in RequestStates, Advance(h, r)
  PROVE  request' \in [Requests -> RequestStates]
  BY DEF Advance

LEMMA FinishTyped ==
  ASSUME request \in [Requests -> RequestStates], NEW h \in Requests, Finish(h)
  PROVE  request' \in [Requests -> RequestStates]
  BY DEF Finish, RequestStates

LEMMA NewRequestTyped ==
  ASSUME request \in [Requests -> RequestStates], NEW h \in Requests,
         NEW s \in PurchaseSteps, NEW j \in Jobs, NEW p \in Purchases,
         NEW q \in Payments \cup {NoPayment}, NEW a \in PaymentStatuses \cup {"error"},
         NEW o \in Offers, NEW row \in Row,
         NewRequest(h, s, j, p, q, a, o, row)
  PROVE  request' \in [Requests -> RequestStates]
<1> DEFINE new == [step |-> s, job |-> j, purchase |-> p, payment |-> q,
                   answer |-> a, paid |-> o, seen |-> row, funds |-> 0]
<1>1. new \in PurchaseRequest
  BY DEF PurchaseRequest
<1> HIDE DEF new
<1>2. Advance(h, new)
  BY DEF NewRequest, new
<1> QED
  BY <1>1, <1>2, AdvanceTyped DEF RequestStates

LEMMA NoRowTyped == NoRow \in Row
  BY PurchasesAssumption, RowTyped DEF NoRow, Statuses

----------------------------------------------------------------------------
(* Type correctness.                                                       *)

LEMMA TypeInit == Init => TypeOK
<1> SUFFICES ASSUME Init PROVE TypeOK
  OBVIOUS
<1>1. purchase \in [Purchases -> Row]
  BY NoRowTyped DEF Init
<1>2. payment \in [Payments -> PaymentStates]
  BY DEF Init, PaymentStates
<1>3. request \in [Requests -> RequestStates]
  BY DEF Init, RequestStates
<1>4. balance \in [Users -> Int]
  BY PurchasesAssumption DEF Init
<1> QED
  BY <1>1, <1>2, <1>3, <1>4, PurchasesAssumption DEF Init, TypeOK

\* The slots a step of a purchase request is taken from.
LEMMA InFlight ==
  ASSUME TypeOK, NEW h \in Requests, NEW s \in PurchaseSteps, At(h, s)
  PROVE  /\ request[h] \in PurchaseRequest
         /\ request[h].purchase \in Purchases
         /\ purchase[request[h].purchase] \in Row
  BY StepKinds, RequestFields DEF TypeOK, At

LEMMA TypeStep == TypeOK /\ [Next]_vars => TypeOK'
<1> SUFFICES ASSUME TypeOK, [Next]_vars
             PROVE  TypeOK'
  OBVIOUS
<1> USE DEF TypeOK
<1>1. ASSUME NEW h \in Requests, NEW p \in Purchases, NEW o \in Offers,
             CreateCheckoutBrick(h, p, o)
      PROVE  TypeOK'
  <2>1. request' \in [Requests -> RequestStates]
    BY <1>1, NewRequestTyped, NoRowTyped DEF CreateCheckoutBrick, PaymentStatuses, PurchaseSteps, Jobs
  <2>2. purchase' \in [Purchases -> Row]
    BY <1>1, SetOfferTyped DEF CreateCheckoutBrick, Statuses, Eligible
  <2> QED
    BY <1>1, <2>1, <2>2 DEF CreateCheckoutBrick, mp, faults, history
<1>2. ASSUME NEW h \in Requests, PublishBrick(h)
      PROVE  TypeOK'
  <2>1. request[h].purchase \in Purchases
    BY <1>2, InFlight DEF PublishBrick, PurchaseSteps
  <2>2. request' \in [Requests -> RequestStates]
    BY <1>2, FinishTyped DEF PublishBrick
  <2>3. purchase' \in [Purchases -> Row]
    BY <1>2, <2>1, SetStatusTyped DEF PublishBrick, Statuses, Eligible, WriteById, SetStatus
  <2> QED
    BY <1>2, <2>1, <2>2, <2>3 DEF PublishBrick, mp, faults, history, WriteById
<1>3. ASSUME NEW h \in Requests, ReadEligible(h)
      PROVE  TypeOK'
  <2> DEFINE p == request[h].purchase
             r == [AtStep(request[h], "approve") EXCEPT !.seen = purchase[p]]
  <2>1. request[h] \in PurchaseRequest /\ p \in Purchases /\ purchase[p] \in Row
    BY <1>3, InFlight DEF ReadEligible, PurchaseSteps
  <2>2. r \in PurchaseRequest
    BY <2>1, AtStepTyped, SeenTyped DEF PurchaseSteps
  <2>3. Advance(h, r) \/ Finish(h)
    BY <1>3 DEF ReadEligible
  <2>4. request' \in [Requests -> RequestStates]
    BY <2>2, <2>3, AdvanceTyped, FinishTyped DEF RequestStates
  <2> QED
    BY <1>3, <2>4 DEF ReadEligible, db, mp, faults, history
<1>4. ASSUME NEW h \in Requests, Approve(h)
      PROVE  TypeOK'
  <2> DEFINE r == request[h]
             p == r.purchase
             id == IF r.job = "webhook" /\ r.seen.mpPaymentId = NoPayment
                   THEN r.payment ELSE purchase[p].mpPaymentId
  <2>1. r \in PurchaseRequest /\ p \in Purchases /\ purchase[p] \in Row
    BY <1>4, InFlight DEF Approve, PurchaseSteps
  <2>2. id \in Payments \cup {NoPayment}
    BY <2>1, RequestFields, RowFields
  <2>3. Write(p, "completed", id) \/ UNCHANGED purchase
    BY <1>4 DEF Approve, db
  <2>4. purchase' \in [Purchases -> Row]
    BY <2>1, <2>2, <2>3, WriteTyped DEF Statuses
  <2>5. request' \in [Requests -> RequestStates]
    BY <1>4, FinishTyped DEF Approve
  <2>6. Credits[r.seen.offer] \in Int
    BY <2>1, RequestFields, RowFields, PurchasesAssumption
  <2>7. \/ balance' = [balance EXCEPT ![Owner[p]] = @ + Credits[r.seen.offer] - 1]
        \/ balance' = [balance EXCEPT ![Owner[p]] = @ + Credits[r.seen.offer]]
        \/ UNCHANGED balance
    BY <1>4 DEF Approve, db
  <2>8. balance' \in [Users -> Int]
    BY <2>6, <2>7
  <2>9. grants' = [grants EXCEPT ![p] = @ + 1] \/ UNCHANGED grants
    BY <1>4 DEF Approve
  <2>10. grants' \in [Purchases -> Nat]
    BY <2>9
  <2>11. \/ /\ adaptation' = [adaptation EXCEPT ![Origin[p]] = "unlocked"]
            /\ charges' = [charges EXCEPT ![Origin[p]] = @ + 1]
         \/ UNCHANGED <<adaptation, charges>>
    BY <1>4 DEF Approve, db
  <2>12. /\ adaptation' \in [Adaptations -> {"absent", "locked", "unlocked"}]
         /\ charges' \in [Adaptations -> Nat]
    BY <2>11
  <2> QED
    BY <1>4, <2>4, <2>5, <2>8, <2>10, <2>12 DEF Approve, mp, faults
<1>5. ASSUME NEW h \in Requests, LookUpPurchase(h)
      PROVE  TypeOK'
  <2> DEFINE p == request[h].purchase
  <2>1. request[h] \in PurchaseRequest /\ p \in Purchases /\ purchase[p] \in Row
    BY <1>5, InFlight DEF LookUpPurchase, PurchaseSteps
  <2>2. Finish(h) \/ \E s \in PurchaseSteps :
          Advance(h, [AtStep(request[h], s) EXCEPT !.seen = purchase[p]])
    BY <1>5 DEF LookUpPurchase, AfterFailure, AfterRefund, AfterApproval, PurchaseSteps
  <2>3. ASSUME NEW s \in PurchaseSteps
        PROVE  [AtStep(request[h], s) EXCEPT !.seen = purchase[p]] \in RequestStates
    BY <2>1, AtStepTyped, SeenTyped DEF RequestStates
  <2>4. request' \in [Requests -> RequestStates]
    BY <2>2, <2>3, AdvanceTyped, FinishTyped
  <2> QED
    BY <1>5, <2>4 DEF LookUpPurchase, db, mp, faults, history
<1>6. ASSUME NEW h \in Requests, MarkFailed(h)
      PROVE  TypeOK'
  <2> DEFINE r == request[h]
             p == r.purchase
             id == IF r.answer = "rejected" /\ r.seen.mpPaymentId = NoPayment
                   THEN r.payment ELSE purchase[p].mpPaymentId
  <2>1. r \in PurchaseRequest /\ p \in Purchases /\ purchase[p] \in Row
    BY <1>6, InFlight DEF MarkFailed, PurchaseSteps
  <2>2. id \in Payments \cup {NoPayment}
    BY <2>1, RequestFields, RowFields
  <2>3. Write(p, "failed", id)
    BY <1>6 DEF MarkFailed, WriteById
  <2>4. purchase' \in [Purchases -> Row]
    BY <2>1, <2>2, <2>3, WriteTyped DEF Statuses
  <2>5. request' \in [Requests -> RequestStates]
    BY <1>6, FinishTyped DEF MarkFailed
  <2> QED
    BY <1>6, <2>1, <2>4, <2>5 DEF MarkFailed, mp, faults, history, WriteById
<1>7. ASSUME NEW h \in Requests, LockForRefund(h)
      PROVE  TypeOK'
  <2> DEFINE p == request[h].purchase
             r == [AtStep(request[h], "reverse") EXCEPT !.funds = balance[Owner[p]]]
  <2>1. request[h] \in PurchaseRequest /\ p \in Purchases /\ purchase[p] \in Row
    BY <1>7, InFlight DEF LockForRefund, PurchaseSteps
  <2>2. balance[Owner[p]] \in Int
    BY <2>1, PurchasesAssumption
  <2>3. r \in RequestStates
    BY <2>1, <2>2, AtStepTyped, FundsTyped DEF PurchaseSteps, RequestStates
  <2>4. Advance(h, r) \/ Finish(h)
    BY <1>7 DEF LockForRefund
  <2>5. request' \in [Requests -> RequestStates]
    BY <2>3, <2>4, AdvanceTyped, FinishTyped
  <2> QED
    BY <1>7, <2>5 DEF LockForRefund, db, mp, faults, history
<1>8. ASSUME NEW h \in Requests, ReverseCredits(h)
      PROVE  TypeOK'
  <2> DEFINE r == request[h]
             p == r.purchase
  <2>1. r \in PurchaseRequest /\ p \in Purchases /\ purchase[p] \in Row
    BY <1>8, InFlight DEF ReverseCredits, PurchaseSteps
  <2>2. request' \in [Requests -> RequestStates]
    BY <1>8, FinishTyped DEF ReverseCredits
  <2>3. purchase' \in [Purchases -> Row]
    BY <1>8, <2>1, SetStatusTyped DEF ReverseCredits, Statuses
  <2>4. Reversible(r) \in Int
    BY <2>1, RequestFields, RowFields, PurchasesAssumption DEF Reversible
  <2>5. PICK n \in Int : balance' = [balance EXCEPT ![Owner[p]] = @ - n]
    BY <1>8, <2>4 DEF ReverseCredits
  <2>6. balance' \in [Users -> Int]
    <3>1. Owner[p] \in Users
      BY <2>1, PurchasesAssumption
    <3> HIDE DEF p, TypeOK
    <3>2. balance \in [Users -> Int]
      BY DEF TypeOK
    <3> QED
      BY <2>5, <3>1, <3>2
  <2>7. reversals' \in [Purchases -> Nat]
    BY <1>8, <2>1 DEF ReverseCredits
  <2> QED
    BY <1>8, <2>2, <2>3, <2>6, <2>7 DEF ReverseCredits, mp, faults
<1>9. ASSUME NEW h \in Requests, LockSubmission(h)
      PROVE  TypeOK'
  <2>1. request[h] \in PurchaseRequest /\ request[h].purchase \in Purchases
    BY <1>9, InFlight DEF LockSubmission, PurchaseSteps
  <2>2. AtStep(request[h], "call_provider") \in RequestStates
    BY <2>1, AtStepTyped DEF PurchaseSteps, RequestStates
  <2>3. request' \in [Requests -> RequestStates]
    BY <1>9, <2>2, AdvanceTyped, FinishTyped DEF LockSubmission
  <2>4. SetStatus(request[h].purchase, "processing_payment") \/ UNCHANGED purchase
    BY <1>9 DEF LockSubmission
  <2>5. purchase' \in [Purchases -> Row]
    BY <2>1, <2>4, SetStatusTyped DEF Statuses, Eligible
  <2> QED
    BY <1>9, <2>3, <2>5 DEF LockSubmission, mp, faults, history
<1>10. ASSUME NEW h \in Requests, AbortSubmission(h)
       PROVE  TypeOK'
  <2>1. request[h].purchase \in Purchases
    BY <1>10, InFlight DEF AbortSubmission, PurchaseSteps
  <2>2. request' \in [Requests -> RequestStates]
    BY <1>10, FinishTyped DEF AbortSubmission
  <2>3. purchase' \in [Purchases -> Row]
    BY <1>10, <2>1, SetStatusTyped DEF AbortSubmission, Statuses, Eligible, WriteById, SetStatus
  <2> QED
    BY <1>10, <2>1, <2>2, <2>3 DEF AbortSubmission, mp, faults, history, WriteById
<1>11. ASSUME NEW h \in Requests, ProviderUnreachable(h)
       PROVE  TypeOK'
  <2> DEFINE r == [AtStep(request[h], "answer") EXCEPT !.answer = "error"]
  <2>1. request[h] \in PurchaseRequest
    BY <1>11, InFlight DEF ProviderUnreachable, PurchaseSteps
  <2>2. r \in RequestStates
    BY <2>1, AtStepTyped, AnswerTyped DEF PurchaseSteps, RequestStates
  <2>3. request' \in [Requests -> RequestStates]
    BY <1>11, <2>2, AdvanceTyped DEF ProviderUnreachable
  <2> QED
    BY <1>11, <2>3 DEF ProviderUnreachable, db, mp, faults, history
<1>12. ASSUME NEW h \in Requests, AnswerBrick(h)
       PROVE  TypeOK'
  <2> DEFINE r == request[h]
             p == r.purchase
             id == IF r.answer = "error" THEN purchase[p].mpPaymentId ELSE r.payment
  <2>1. r \in PurchaseRequest /\ p \in Purchases /\ purchase[p] \in Row
    BY <1>12, InFlight DEF AnswerBrick, PurchaseSteps
  <2>2. id \in Payments \cup {NoPayment} /\ purchase[p].status \in Statuses
    BY <2>1, RequestFields, RowFields
  <2>3. \E s \in Statuses : Write(p, s, id)
    BY <1>12, <2>2 DEF AnswerBrick, Paid, AnswerStatus, Statuses, Eligible, WriteById
  <2>4. purchase' \in [Purchases -> Row]
    BY <2>1, <2>2, <2>3, WriteTyped
  <2>5. AtStep(r, "read_eligible") \in RequestStates
    BY <2>1, AtStepTyped DEF PurchaseSteps, RequestStates
  <2>6. request' \in [Requests -> RequestStates]
    BY <1>12, <2>5, AdvanceTyped, FinishTyped DEF AnswerBrick
  <2> QED
    BY <1>12, <2>1, <2>4, <2>6 DEF AnswerBrick, mp, faults, history, WriteById
<1>13. ASSUME NEW h \in Requests, NEW q \in Payments, NEW s \in PaymentStatuses \ {"refunded"},
              ProviderCreates(h, q, s)
       PROVE  TypeOK'
  <2> DEFINE r == request[h]
             n(a) == [[AtStep(r, "answer") EXCEPT !.payment = q] EXCEPT !.answer = a]
  <2>1. r \in PurchaseRequest
    BY <1>13, InFlight DEF ProviderCreates, PurchaseSteps
  <2>2. ASSUME NEW a \in {s, "error"}
        PROVE  n(a) \in RequestStates
    BY <2>1, AtStepTyped, PaymentTyped, AnswerTyped DEF PurchaseSteps, RequestStates
  <2>3. \E a \in {s, "error"} : Advance(h, n(a))
    BY <1>13 DEF ProviderCreates
  <2>4. request' \in [Requests -> RequestStates]
    BY <2>2, <2>3, AdvanceTyped
  <2>5. [status |-> s, purchase |-> r.purchase, offer |-> r.paid, via |-> "brick"] \in PaymentStates
    BY <2>1, RequestFields DEF PaymentStates, PaymentAtProvider
  <2>6. payment' \in [Payments -> PaymentStates]
    BY <1>13, <2>5 DEF ProviderCreates
  <2> QED
    BY <1>13, <2>4, <2>6 DEF ProviderCreates, db, faults, history
<1>14. ASSUME NEW h \in Requests, SpendCredit(h)
       PROVE  TypeOK'
  <2> DEFINE a == request[h].adaptation
  <2>1. request[h] \in UnlockRequest
    BY <1>14, StepKinds DEF SpendCredit
  <2>2. a \in Adaptations /\ Owner[a] \in Users
    BY <2>1, PurchasesAssumption DEF UnlockRequest
  <2>3. request' \in [Requests -> RequestStates]
    BY <1>14, FinishTyped DEF SpendCredit
  <2> QED
    BY <1>14, <2>2, <2>3 DEF SpendCredit, mp, faults
<1>15. ASSUME NEW h \in Requests, NEW p \in Purchases, SubmitBrickPayment(h, p)
       PROVE  TypeOK'
  <2>1. purchase[p] \in Row /\ purchase[p].offer \in Offers
    BY RowFields
  <2>2. request' \in [Requests -> RequestStates]
    BY <1>15, <2>1, NewRequestTyped DEF SubmitBrickPayment, PurchaseSteps, Jobs, PaymentStatuses
  <2> QED
    BY <1>15, <2>2 DEF SubmitBrickPayment, db, mp, faults, history
<1>16. ASSUME NEW h \in Requests, NEW p \in Purchases, StartReconcile(h, p)
       PROVE  TypeOK'
  <2>1. purchase[p].offer \in Offers
    BY RowFields
  <2>2. request' \in [Requests -> RequestStates]
    BY <1>16, <2>1, NewRequestTyped, NoRowTyped DEF StartReconcile, PurchaseSteps, Jobs, PaymentStatuses
  <2> QED
    BY <1>16, <2>2 DEF StartReconcile, db, mp, faults, history
<1>17. ASSUME NEW h \in Requests, NEW q \in Payments, ReceiveWebhook(h, q)
       PROVE  TypeOK'
  <2>1. payment[q] \in PaymentAtProvider
    BY <1>17 DEF ReceiveWebhook, PaymentStates, NoPaymentYet
  <2>2. request' \in [Requests -> RequestStates]
    BY <1>17, <2>1, NewRequestTyped, NoRowTyped
    DEF ReceiveWebhook, PaymentAtProvider, PurchaseSteps, Jobs
  <2> QED
    BY <1>17, <2>2 DEF ReceiveWebhook, db, faults, history
<1>18. ASSUME NEW h \in Requests, NEW a \in Adaptations, NEW s \in {"redeem", "claim"},
              StartUnlock(h, a, s)
       PROVE  TypeOK'
  <2>1. [step |-> s, adaptation |-> a] \in RequestStates
    BY DEF RequestStates, UnlockRequest
  <2>2. request' \in [Requests -> RequestStates]
    BY <1>18, <2>1, AdvanceTyped DEF StartUnlock
  <2> QED
    BY <1>18, <2>2 DEF StartUnlock, db, mp, faults, history
<1>19. ASSUME NEW h \in Requests, Crash(h)
       PROVE  TypeOK'
  <2>1. request' \in [Requests -> RequestStates]
    BY <1>19, FinishTyped DEF Crash
  <2>2. crashes' \in 0..MaxCrashes
    BY <1>19, PurchasesAssumption DEF Crash
  <2> QED
    BY <1>19, <2>1, <2>2 DEF Crash, db, history
<1>20. ASSUME NEW p \in Purchases, ReuseCheckout(p)
       PROVE  TypeOK'
  <2>1. purchase' \in [Purchases -> Row]
    BY <1>20, SetStatusTyped DEF ReuseCheckout, Statuses, Eligible
  <2>2. preferences' \in [Purchases -> SUBSET Offers]
    BY <1>20, RowFields DEF ReuseCheckout
  <2> QED
    BY <1>20, <2>1, <2>2 DEF ReuseCheckout, faults, history
<1>21. ASSUME NEW p \in Purchases, ResumeCheckout(p)
       PROVE  TypeOK'
  <2>1. preferences' \in [Purchases -> SUBSET Offers]
    BY <1>21, RowFields DEF ResumeCheckout
  <2> QED
    BY <1>21, <2>1 DEF ResumeCheckout, db, faults, history
<1>22. ASSUME NEW p \in Purchases, NEW o \in Offers, CreateCheckoutPro(p, o)
       PROVE  TypeOK'
  <2>1. purchase' \in [Purchases -> Row]
    BY <1>22, SetOfferTyped DEF CreateCheckoutPro, Statuses, Eligible
  <2>2. preferences' \in [Purchases -> SUBSET Offers]
    BY <1>22 DEF CreateCheckoutPro
  <2> QED
    BY <1>22, <2>1, <2>2 DEF CreateCheckoutPro, faults, history
<1>23. ASSUME NEW p \in Purchases, NEW o \in Offers, ApplyCheckoutCoupon(p, o)
       PROVE  TypeOK'
  <2>1. purchase' \in [Purchases -> Row]
    BY <1>23, SetOfferTyped DEF ApplyCheckoutCoupon, Statuses, Eligible
  <2> QED
    BY <1>23, <2>1 DEF ApplyCheckoutCoupon, mp, faults, history
<1>24. ASSUME NEW q \in Payments, LoseWebhook(q)
       PROVE  TypeOK'
  BY <1>24, PurchasesAssumption DEF LoseWebhook, db, history
<1>25. ASSUME NEW q \in Payments, NEW s \in PaymentStatuses, PaymentChanges(q, s)
       PROVE  TypeOK'
  <2>1. payment[q] \in PaymentAtProvider
    BY <1>25 DEF PaymentChanges, PaymentStates, NoPaymentYet
  <2>2. [payment[q] EXCEPT !.status = s] \in PaymentAtProvider
    BY <2>1 DEF PaymentAtProvider
  <2>3. payment' \in [Payments -> PaymentStates]
    BY <1>25, <2>2 DEF PaymentChanges, PaymentStates
  <2> QED
    BY <1>25, <2>3 DEF PaymentChanges, db, faults, history
<1>26. ASSUME NEW q \in Payments, NEW p \in Purchases, NEW o \in Offers,
              NEW s \in PaymentStatuses \ {"refunded"}, PayPreference(q, p, o, s)
       PROVE  TypeOK'
  <2>1. [status |-> s, purchase |-> p, offer |-> o, via |-> "pro"] \in PaymentStates
    BY DEF PaymentStates, PaymentAtProvider
  <2>2. payment' \in [Payments -> PaymentStates]
    BY <1>26, <2>1 DEF PayPreference
  <2> QED
    BY <1>26, <2>2 DEF PayPreference, db, faults, history
<1>27. ASSUME NEW u \in Users, NEW n \in AdminCredits, SetCredits(u, n)
       PROVE  TypeOK'
  BY <1>27, PurchasesAssumption DEF SetCredits, mp, faults, history
<1>28. CASE UNCHANGED vars
  BY <1>28 DEF vars
<1> QED
  BY <1>1, <1>2, <1>3, <1>4, <1>5, <1>6, <1>7, <1>8, <1>9, <1>10, <1>11, <1>12, <1>13, <1>14,
     <1>15, <1>16, <1>17, <1>18, <1>19, <1>20, <1>21, <1>22, <1>23, <1>24, <1>25, <1>26, <1>27,
     <1>28
  DEF Next, Handle, Start, ReconcilePending, ReconcileOne, RedeemWithCredit, ClaimGuest

\* Every reachable state is well typed, for every instance.
THEOREM TypeCorrect == Spec => []TypeOK
<1>1. Init => TypeOK
  BY TypeInit
<1>2. TypeOK /\ [Next]_vars => TypeOK'
  BY TypeStep
<1> QED
  BY <1>1, <1>2, PTL DEF Spec

----------------------------------------------------------------------------
(* Who writes what: each step is one of the writers of a table, or leaves  *)
(* it alone.                                                               *)

CreditsMove(h) == Approve(h) \/ ReverseCredits(h) \/ SpendCredit(h)
credits == <<balance, adaptation, grants, reversals, charges>>

LEMMA CreditWriters ==
  ASSUME Next
  PROVE  \/ \E h \in Requests : CreditsMove(h)
         \/ \E u \in Users, n \in AdminCredits : SetCredits(u, n)
         \/ UNCHANGED credits
<1>1. ASSUME NEW h \in Requests, Handle(h), ~CreditsMove(h)
      PROVE  UNCHANGED credits
  <2>1. \/ PublishBrick(h) \/ ReadEligible(h) \/ LookUpPurchase(h) \/ MarkFailed(h) \/ LockForRefund(h)
        => UNCHANGED credits
    BY DEF PublishBrick, ReadEligible, LookUpPurchase, MarkFailed, LockForRefund, db, history, credits, WriteById
  <2>2. \/ LockSubmission(h) \/ AbortSubmission(h) \/ ProviderUnreachable(h) \/ AnswerBrick(h)
        \/ \E q \in Payments, s \in PaymentStatuses \ {"refunded"} : ProviderCreates(h, q, s)
        => UNCHANGED credits
    BY DEF LockSubmission, AbortSubmission, ProviderUnreachable, ProviderCreates, AnswerBrick,
       db, history, credits, WriteById
  <2> QED
    BY <1>1, <2>1, <2>2 DEF Handle, CreditsMove
<1>2. ASSUME NEW h \in Requests, Start(h) \/ Crash(h)
      PROVE  UNCHANGED credits
  BY <1>2 DEF Start, CreateCheckoutBrick, SubmitBrickPayment, ReconcilePending, ReconcileOne,
     StartReconcile, ReceiveWebhook, RedeemWithCredit, ClaimGuest, StartUnlock, Crash, db, history,
     credits
<1>3. ASSUME NEW p \in Purchases,
             \/ ReuseCheckout(p) \/ ResumeCheckout(p)
             \/ \E o \in Offers : CreateCheckoutPro(p, o) \/ ApplyCheckoutCoupon(p, o)
      PROVE  UNCHANGED credits
  BY <1>3 DEF ReuseCheckout, ResumeCheckout, CreateCheckoutPro, ApplyCheckoutCoupon, db, history,
     credits
<1>4. ASSUME NEW q \in Payments,
             \/ LoseWebhook(q)
             \/ \E s \in PaymentStatuses : PaymentChanges(q, s)
             \/ \E p \in Purchases, o \in Offers, s \in PaymentStatuses \ {"refunded"} :
                  PayPreference(q, p, o, s)
      PROVE  UNCHANGED credits
  BY <1>4 DEF LoseWebhook, PaymentChanges, PayPreference, db, history, credits
<1> QED
  BY <1>1, <1>2, <1>3, <1>4 DEF Next

RowWriter(h) ==
  \/ PublishBrick(h) \/ Approve(h) \/ MarkFailed(h) \/ ReverseCredits(h)
  \/ LockSubmission(h) \/ AbortSubmission(h) \/ AnswerBrick(h)

LEMMA RowWriters ==
  ASSUME Next
  PROVE  \/ \E h \in Requests : RowWriter(h)
         \/ \E h \in Requests, p \in Purchases, o \in Offers : CreateCheckoutBrick(h, p, o)
         \/ \E p \in Purchases, o \in Offers : CreateCheckoutPro(p, o) \/ ApplyCheckoutCoupon(p, o)
         \/ \E p \in Purchases : ReuseCheckout(p)
         \/ UNCHANGED purchase
<1>1. ASSUME NEW h \in Requests, Handle(h), ~RowWriter(h)
      PROVE  UNCHANGED purchase
  BY <1>1 DEF Handle, RowWriter, ReadEligible, LookUpPurchase, LockForRefund, ProviderUnreachable,
     ProviderCreates, SpendCredit, db
<1>2. ASSUME NEW h \in Requests, Start(h) \/ Crash(h)
      PROVE  \/ UNCHANGED purchase
             \/ \E p \in Purchases, o \in Offers : CreateCheckoutBrick(h, p, o)
  BY <1>2 DEF Start, SubmitBrickPayment, ReconcilePending, ReconcileOne,
     StartReconcile, ReceiveWebhook, RedeemWithCredit, ClaimGuest, StartUnlock, Crash, db
<1>3. ASSUME NEW p \in Purchases, ResumeCheckout(p)
      PROVE  UNCHANGED purchase
  BY <1>3 DEF ResumeCheckout, db
<1>4. ASSUME NEW q \in Payments,
             \/ LoseWebhook(q)
             \/ \E s \in PaymentStatuses : PaymentChanges(q, s)
             \/ \E p \in Purchases, o \in Offers, s \in PaymentStatuses \ {"refunded"} :
                  PayPreference(q, p, o, s)
      PROVE  UNCHANGED purchase
  BY <1>4 DEF LoseWebhook, PaymentChanges, PayPreference, db
<1>5. ASSUME NEW u \in Users, NEW n \in AdminCredits, SetCredits(u, n)
      PROVE  UNCHANGED purchase
  BY <1>5 DEF SetCredits
<1> QED
  BY <1>1, <1>2, <1>3, <1>4, <1>5 DEF Next

LEMMA PaymentWriters ==
  ASSUME Next
  PROVE  \/ \E h \in Requests, q \in Payments, s \in PaymentStatuses \ {"refunded"} :
              ProviderCreates(h, q, s)
         \/ \E q \in Payments, s \in PaymentStatuses : PaymentChanges(q, s)
         \/ \E q \in Payments, p \in Purchases, o \in Offers, s \in PaymentStatuses \ {"refunded"} :
              PayPreference(q, p, o, s)
         \/ UNCHANGED payment
<1>1. ASSUME NEW h \in Requests, Handle(h)
      PROVE  \/ UNCHANGED payment
             \/ \E q \in Payments, s \in PaymentStatuses \ {"refunded"} : ProviderCreates(h, q, s)
  BY <1>1 DEF Handle, PublishBrick, ReadEligible, Approve, LookUpPurchase, MarkFailed, LockForRefund,
     ReverseCredits, LockSubmission, AbortSubmission, ProviderUnreachable, AnswerBrick, SpendCredit, mp
<1>2. ASSUME NEW h \in Requests, Start(h) \/ Crash(h)
      PROVE  UNCHANGED payment
  BY <1>2 DEF Start, CreateCheckoutBrick, SubmitBrickPayment, ReconcilePending, ReconcileOne,
     StartReconcile, ReceiveWebhook, RedeemWithCredit, ClaimGuest, StartUnlock, Crash, mp
<1>3. ASSUME NEW p \in Purchases,
             \/ ReuseCheckout(p) \/ ResumeCheckout(p)
             \/ \E o \in Offers : CreateCheckoutPro(p, o) \/ ApplyCheckoutCoupon(p, o)
      PROVE  UNCHANGED payment
  BY <1>3 DEF ReuseCheckout, ResumeCheckout, CreateCheckoutPro, ApplyCheckoutCoupon, mp
<1>4. ASSUME NEW q \in Payments, LoseWebhook(q)
      PROVE  UNCHANGED payment
  BY <1>4 DEF LoseWebhook
<1>5. ASSUME NEW u \in Users, NEW n \in AdminCredits, SetCredits(u, n)
      PROVE  UNCHANGED payment
  BY <1>5 DEF SetCredits, mp
<1> QED
  BY <1>1, <1>2, <1>3, <1>4, <1>5 DEF Next

----------------------------------------------------------------------------
(* What one step does to the requests: it moves one slot, if any.          *)

RowOf(k) == purchase[request[k].purchase]

\* The same request, at another step.
GoesTo(k, s) ==
  /\ request'[k].step = s
  /\ request'[k].job = request[k].job /\ request'[k].purchase = request[k].purchase
  /\ request'[k].payment = request[k].payment /\ request'[k].answer = request[k].answer

\* A notification of a refund on its way through the webhook.
Refunding(r) ==
  /\ r.step \in {"look_up", "write_failed", "lock_refund", "reverse"}
  /\ r.job = "webhook" /\ r.answer = "refunded"

\* It ends with the purchase refunded or failed, or goes back to be delivered.
Ends(k) ==
  /\ request'[k] = Idle
  /\ Refunding(request[k]) /\ request[k].payment \in Payments =>
       \/ purchase'[request[k].purchase].status \in {"failed", "refunded"}
       \/ At(k, "lock_refund") /\ RowOf(k).status # "completed" /\ UNCHANGED purchase
       \/ request[k].payment \in notify'

StartsBrick(k) ==
  "brick" \in CheckoutModes /\ request'[k].step \in {"publish", "lock_submit"}

StartsReconcile(k) ==
  /\ request'[k].step = "read_eligible" /\ request'[k].job = "reconcile"
  /\ ApprovedByReference(request'[k].purchase)
  /\ UNCHANGED <<db, mp>>

StartsWebhook(k) ==
  /\ request'[k].step = "look_up" /\ request'[k].job = "webhook"
  /\ \E q \in Payments :
       /\ payment[q].status # "absent"
       /\ request'[k].payment = q /\ request'[k].purchase = payment[q].purchase
       /\ request'[k].answer = payment[q].status
       /\ notify' = notify \ {q}
  /\ UNCHANGED <<db, payment>>

StartsUnlock(k) ==
  /\ request'[k].step \in {"redeem", "claim"}
  /\ request'[k].adaptation \in Adaptations /\ balance[Owner[request'[k].adaptation]] >= 1
  /\ UNCHANGED <<db, mp>>

LooksUp(k) ==
  /\ At(k, "look_up")
  /\ \/ GoesTo(k, "write_failed") /\ RowOf(k).status # "completed" /\ request'[k].seen = RowOf(k)
     \/ GoesTo(k, "lock_refund") /\ request[k].answer = "refunded" /\ RowOf(k).status = "completed"
     \/ GoesTo(k, "read_eligible") /\ request[k].answer = "approved"
  /\ UNCHANGED <<db, mp>>

LocksRefund(k) ==
  /\ At(k, "lock_refund") /\ GoesTo(k, "reverse")
  /\ RowOf(k).status = "completed" /\ ~RowLocked(request[k].purchase)
  /\ request'[k].funds = balance[Owner[request[k].purchase]]
  /\ UNCHANGED <<db, mp>>

IsAnswered(k) ==
  /\ At(k, "call_provider") /\ request'[k].step = "answer"
  /\ request'[k].purchase = request[k].purchase
  /\ request'[k].answer # "error" =>
       \E q \in Payments :
         payment'[q].purchase = request[k].purchase /\ payment'[q].status = request'[k].answer
  /\ UNCHANGED db

Moves(k) ==
  \/ Ends(k)
  \/ IsIdle(k) /\ (StartsBrick(k) \/ StartsReconcile(k) \/ StartsWebhook(k) \/ StartsUnlock(k))
  \/ At(k, "read_eligible") /\ GoesTo(k, "approve") /\ UNCHANGED <<db, mp>>
  \/ LooksUp(k) \/ LocksRefund(k)
  \/ LockSubmission(k) /\ GoesTo(k, "call_provider")
  \/ AnswerBrick(k) /\ GoesTo(k, "read_eligible") /\ request[k].answer = "approved"
  \/ IsAnswered(k)

OnlySlot(h) == \A k \in Requests \ {h} : request'[k] = request[k]

\* What a write of one row says of every row.
LEMMA OneRow ==
  ASSUME TypeOK, NEW q \in Purchases, NEW s \in Statuses, NEW o, NEW id,
         purchase' = [purchase EXCEPT ![q] = [status |-> s, offer |-> o, mpPaymentId |-> id]]
  PROVE  \A p \in Purchases :
           /\ p # q => purchase'[p] = purchase[p]
           /\ p = q => purchase'[p].status = s /\ purchase'[p].offer = o
  BY DEF TypeOK

\* The same of its two forms that keep the offer, or the payment.
LEMMA SetStatusRow ==
  ASSUME TypeOK, NEW q \in Purchases, NEW s \in Statuses, SetStatus(q, s)
  PROVE  \A p \in Purchases :
           /\ p # q => purchase'[p] = purchase[p]
           /\ p = q => purchase'[p].status = s
BY DEF SetStatus, Write, TypeOK

LEMMA SetOfferRow ==
  ASSUME TypeOK, NEW q \in Purchases, NEW s \in Statuses, NEW o, SetOffer(q, s, o)
  PROVE  \A p \in Purchases :
           /\ p # q => purchase'[p] = purchase[p]
           /\ p = q => purchase'[p].status = s
BY DEF SetOffer, TypeOK

LEMMA Advances ==
  ASSUME TypeOK, NEW h \in Requests, NEW r, Advance(h, r)
  PROVE  request'[h] = r /\ OnlySlot(h)
BY DEF Advance, TypeOK, OnlySlot

LEMMA Finishes ==
  ASSUME TypeOK, NEW h \in Requests, Finish(h)
  PROVE  request'[h] = Idle /\ OnlySlot(h)
BY DEF Finish, TypeOK, OnlySlot

LEMMA Starts ==
  ASSUME TypeOK, NEW h \in Requests, NEW s, NEW j, NEW p, NEW q, NEW a, NEW o, NEW row,
         NewRequest(h, s, j, p, q, a, o, row)
  PROVE  /\ request'[h].step = s /\ request'[h].job = j /\ request'[h].purchase = p
         /\ request'[h].payment = q /\ request'[h].answer = a /\ OnlySlot(h)
<1> DEFINE new == [step |-> s, job |-> j, purchase |-> p, payment |-> q,
                   answer |-> a, paid |-> o, seen |-> row, funds |-> 0]
<1>1. /\ new.step = s /\ new.job = j /\ new.purchase = p /\ new.payment = q /\ new.answer = a
  OBVIOUS
<1>2. Advance(h, new)
  BY DEF NewRequest
<1> HIDE DEF new
<1> QED
  BY <1>1, <1>2, Advances

\* A request at another step, with the row it read.
LEMMA GoesToSeen ==
  ASSUME TypeOK, NEW h \in Requests, NEW s \in PurchaseSteps, NEW t \in PurchaseSteps, At(h, t),
         Advance(h, [AtStep(request[h], s) EXCEPT !.seen = RowOf(h)])
  PROVE  GoesTo(h, s) /\ OnlySlot(h) /\ request'[h].seen = RowOf(h)
<1> DEFINE r == AtStep(request[h], s)
           n == [r EXCEPT !.seen = RowOf(h)]
<1>1. request[h] \in PurchaseRequest /\ RowOf(h) \in Row
  BY InFlight DEF RowOf
<1>2. /\ r \in PurchaseRequest /\ r.step = s /\ r.job = request[h].job
      /\ r.purchase = request[h].purchase /\ r.payment = request[h].payment
      /\ r.answer = request[h].answer
  BY <1>1, AtStepTyped
<1> HIDE DEF r
<1>3. /\ n.step = r.step /\ n.job = r.job /\ n.purchase = r.purchase
      /\ n.payment = r.payment /\ n.answer = r.answer /\ n.seen = RowOf(h)
  BY <1>1, <1>2, SeenTyped
<1>4. Advance(h, n)
  BY DEF r
<1> HIDE DEF n
<1> QED
  BY <1>2, <1>3, <1>4, Advances DEF GoesTo

LEMMA GoesToStep ==
  ASSUME TypeOK, NEW h \in Requests, NEW s \in PurchaseSteps, NEW t \in PurchaseSteps, At(h, t),
         Advance(h, AtStep(request[h], s))
  PROVE  GoesTo(h, s) /\ OnlySlot(h)
<1>1. request[h] \in PurchaseRequest
  BY InFlight
<1> QED
  BY <1>1, AtStepTyped, Advances DEF GoesTo

LEMMA StartMoves ==
  ASSUME TypeOK, NEW h \in Requests, Start(h)
  PROVE  Moves(h) /\ OnlySlot(h)
<1>1. ASSUME NEW p \in Purchases, NEW o \in Offers, CreateCheckoutBrick(h, p, o)
      PROVE  Moves(h) /\ OnlySlot(h)
  BY <1>1, Starts DEF CreateCheckoutBrick, Moves, StartsBrick
<1>2. ASSUME NEW p \in Purchases, SubmitBrickPayment(h, p)
      PROVE  Moves(h) /\ OnlySlot(h)
  BY <1>2, Starts DEF SubmitBrickPayment, Moves, StartsBrick
<1>3. ASSUME NEW p \in Purchases, StartReconcile(h, p)
      PROVE  Moves(h) /\ OnlySlot(h)
  BY <1>3, Starts DEF StartReconcile, Moves, StartsReconcile
<1>4. ASSUME NEW q \in Payments, ReceiveWebhook(h, q)
      PROVE  Moves(h) /\ OnlySlot(h)
  BY <1>4, Starts DEF ReceiveWebhook, Moves, StartsWebhook
<1>5. ASSUME NEW a \in Adaptations, NEW s \in {"redeem", "claim"}, StartUnlock(h, a, s)
      PROVE  Moves(h) /\ OnlySlot(h)
  BY <1>5, Advances DEF StartUnlock, Moves, StartsUnlock
<1> QED
  BY <1>1, <1>2, <1>3, <1>4, <1>5
  DEF Start, ReconcilePending, ReconcileOne, RedeemWithCredit, ClaimGuest

\* The steps that end a request.
LEMMA EndMoves ==
  ASSUME TypeOK, NEW h \in Requests,
         \/ PublishBrick(h) \/ Approve(h) \/ MarkFailed(h) \/ ReverseCredits(h)
         \/ AbortSubmission(h) \/ SpendCredit(h) \/ Crash(h)
  PROVE  Ends(h) /\ OnlySlot(h)
<1>1. Finish(h)
  BY DEF PublishBrick, Approve, MarkFailed, ReverseCredits, AbortSubmission, SpendCredit, Crash
<1>2. CASE ReverseCredits(h)
  <2>1. request[h].purchase \in Purchases
    BY <1>2, InFlight DEF ReverseCredits, PurchaseSteps
  <2>2. purchase'[request[h].purchase].status = "refunded"
    BY <1>2, <2>1, SetStatusRow DEF ReverseCredits, Statuses
  <2> QED
    BY <1>1, <2>2, Finishes DEF Ends
<1>3. CASE Crash(h)
  <2>1. ASSUME Refunding(request[h]), request[h].payment \in Payments
        PROVE  request[h].payment \in notify'
    <3>1. request[h] \in PurchaseRequest
      BY <2>1, StepKinds DEF Refunding, PurchaseSteps, TypeOK
    <3> QED
      BY <1>3, <2>1, <3>1 DEF Crash, Refunding
  <2> QED
    BY <1>1, <2>1, Finishes DEF Ends
<1>4. CASE MarkFailed(h)
  <2>1. request[h].purchase \in Purchases
    BY <1>4, InFlight DEF MarkFailed, PurchaseSteps
  <2>2. \E id : Write(request[h].purchase, "failed", id)
    BY <1>4 DEF MarkFailed, WriteById
  <2>3. purchase'[request[h].purchase].status = "failed"
    BY <2>1, <2>2 DEF Write, TypeOK
  <2> QED
    BY <1>1, <2>3, Finishes DEF Ends
<1>5. CASE PublishBrick(h) \/ Approve(h) \/ AbortSubmission(h) \/ SpendCredit(h)
  BY <1>1, <1>5, Finishes
  DEF Ends, Refunding, PublishBrick, Approve, AbortSubmission, SpendCredit, At
<1> QED
  BY <1>2, <1>3, <1>4, <1>5

\* The other steps of a request in progress.
LEMMA ReadMoves ==
  ASSUME TypeOK, NEW h \in Requests, ReadEligible(h)
  PROVE  Moves(h) /\ OnlySlot(h)
<1>1. CASE Finish(h)
  BY <1>1, Finishes DEF ReadEligible, At, Moves, Ends, Refunding
<1>2. CASE ~Finish(h)
  <2>1. Advance(h, [AtStep(request[h], "approve") EXCEPT !.seen = RowOf(h)])
    BY <1>2 DEF ReadEligible, RowOf
  <2>2. GoesTo(h, "approve") /\ OnlySlot(h)
    BY <2>1, GoesToSeen DEF ReadEligible, PurchaseSteps
  <2> QED
    BY <2>2 DEF ReadEligible, Moves
<1> QED
  BY <1>1, <1>2

LEMMA LookUpMoves ==
  ASSUME TypeOK, NEW h \in Requests, LookUpPurchase(h)
  PROVE  Moves(h) /\ OnlySlot(h)
<1> DEFINE status == RowOf(h).status
           To(s) == Advance(h, [AtStep(request[h], s) EXCEPT !.seen = RowOf(h)])
<1>1. /\ At(h, "look_up") /\ UNCHANGED <<db, mp>>
      /\ \/ Finish(h) /\ (request[h].answer = "refunded" => status \in {"failed", "refunded"})
         \/ To("write_failed") /\ status # "completed"
         \/ To("lock_refund") /\ request[h].answer = "refunded" /\ status = "completed"
         \/ To("read_eligible") /\ request[h].answer = "approved"
  BY DEF LookUpPurchase, AfterFailure, AfterRefund, AfterApproval, RowOf
<1>2. ASSUME NEW s \in PurchaseSteps, To(s)
      PROVE  GoesTo(h, s) /\ OnlySlot(h) /\ request'[h].seen = RowOf(h)
  BY <1>1, <1>2, GoesToSeen DEF PurchaseSteps
<1>3. CASE Finish(h) /\ (request[h].answer = "refunded" => status \in {"failed", "refunded"})
  BY <1>1, <1>3, Finishes DEF Moves, Ends, Refunding, RowOf, db
<1>4. ASSUME \/ To("write_failed") /\ status # "completed"
             \/ To("lock_refund") /\ request[h].answer = "refunded" /\ status = "completed"
             \/ To("read_eligible") /\ request[h].answer = "approved"
      PROVE  LooksUp(h) /\ OnlySlot(h)
  BY <1>1, <1>2, <1>4 DEF LooksUp, PurchaseSteps
<1> QED
  BY <1>1, <1>3, <1>4 DEF Moves

LEMMA LockRefundMoves ==
  ASSUME TypeOK, NEW h \in Requests, LockForRefund(h)
  PROVE  Moves(h) /\ OnlySlot(h)
<1> DEFINE p == request[h].purchase
           r == [AtStep(request[h], "reverse") EXCEPT !.funds = balance[Owner[p]]]
<1>1. CASE RowOf(h).status = "completed"
  <2>1. request[h] \in PurchaseRequest /\ balance[Owner[p]] \in Int
    BY InFlight, PurchasesAssumption DEF LockForRefund, PurchaseSteps, TypeOK
  <2>2. /\ r.step = "reverse" /\ r.job = request[h].job /\ r.purchase = p
        /\ r.payment = request[h].payment /\ r.answer = request[h].answer
        /\ r.funds = balance[Owner[p]]
    BY <2>1 DEF AtStep, PurchaseRequest
  <2>3. Advance(h, r)
    BY <1>1 DEF LockForRefund, RowOf
  <2> QED
    BY <1>1, <2>2, <2>3, Advances DEF LockForRefund, Moves, LocksRefund, GoesTo
<1>2. CASE RowOf(h).status # "completed"
  BY <1>2, Finishes DEF LockForRefund, RowOf, Moves, Ends, db
<1> QED
  BY <1>1, <1>2

LEMMA SubmissionMoves ==
  ASSUME TypeOK, NEW h \in Requests, LockSubmission(h) \/ AnswerBrick(h)
  PROVE  Moves(h) /\ OnlySlot(h)
<1>1. CASE Finish(h)
  BY <1>1, Finishes DEF LockSubmission, AnswerBrick, At, Moves, Ends, Refunding
<1>2. CASE LockSubmission(h) /\ ~Finish(h)
  <2>1. Advance(h, AtStep(request[h], "call_provider"))
    BY <1>2 DEF LockSubmission
  <2>2. GoesTo(h, "call_provider") /\ OnlySlot(h)
    BY <1>2, <2>1, GoesToStep DEF LockSubmission, PurchaseSteps
  <2> QED
    BY <1>2, <2>2 DEF Moves
<1>3. CASE AnswerBrick(h) /\ ~Finish(h)
  <2>1. Advance(h, AtStep(request[h], "read_eligible")) /\ request[h].answer = "approved"
    BY <1>3 DEF AnswerBrick, Paid
  <2>2. GoesTo(h, "read_eligible") /\ OnlySlot(h)
    BY <1>3, <2>1, GoesToStep DEF AnswerBrick, PurchaseSteps
  <2> QED
    BY <1>3, <2>1, <2>2 DEF Moves
<1> QED
  BY <1>1, <1>2, <1>3

LEMMA ProviderMoves ==
  ASSUME TypeOK, NEW h \in Requests,
         \/ ProviderUnreachable(h)
         \/ \E q \in Payments, s \in PaymentStatuses \ {"refunded"} : ProviderCreates(h, q, s)
  PROVE  Moves(h) /\ OnlySlot(h)
<1>1. request[h] \in PurchaseRequest
  BY InFlight DEF ProviderUnreachable, ProviderCreates, PurchaseSteps
<1>2. CASE ProviderUnreachable(h)
  <2> DEFINE r == [AtStep(request[h], "answer") EXCEPT !.answer = "error"]
  <2>1. r.step = "answer" /\ r.purchase = request[h].purchase /\ r.answer = "error"
    BY <1>1, AtStepTyped, AnswerTyped DEF PurchaseSteps
  <2>2. Advance(h, r)
    BY <1>2 DEF ProviderUnreachable
  <2> HIDE DEF r
  <2> QED
    BY <1>2, <2>1, <2>2, Advances DEF ProviderUnreachable, Moves, IsAnswered
<1>3. ASSUME NEW q \in Payments, NEW s \in PaymentStatuses \ {"refunded"}, ProviderCreates(h, q, s)
      PROVE  Moves(h) /\ OnlySlot(h)
  <2> DEFINE r(a) == [[AtStep(request[h], "answer") EXCEPT !.payment = q] EXCEPT !.answer = a]
  <2>1. PICK a \in {s, "error"} : Advance(h, r(a))
    BY <1>3 DEF ProviderCreates
  <2>2. r(a).step = "answer" /\ r(a).purchase = request[h].purchase /\ r(a).answer = a
    BY <1>1, AtStepTyped, PaymentTyped, AnswerTyped DEF PurchaseSteps
  <2>3. payment'[q].purchase = request[h].purchase /\ payment'[q].status = s
    BY <1>3 DEF ProviderCreates, TypeOK
  <2> HIDE DEF r
  <2>4. request'[h] = r(a) /\ OnlySlot(h)
    BY <2>1, Advances
  <2>5. IsAnswered(h)
    BY <1>3, <2>2, <2>3, <2>4 DEF ProviderCreates, IsAnswered
  <2> QED
    BY <2>4, <2>5 DEF Moves
<1> QED
  BY <1>2, <1>3

\* A step moves the request in one slot, or none.
LEMMA Moved ==
  ASSUME TypeOK, Next
  PROVE  UNCHANGED request \/ \E h \in Requests : Moves(h) /\ OnlySlot(h)
<1>1. ASSUME NEW h \in Requests, Handle(h) \/ Start(h) \/ Crash(h)
      PROVE  Moves(h) /\ OnlySlot(h)
  BY <1>1, StartMoves, EndMoves, ReadMoves, LookUpMoves, LockRefundMoves, SubmissionMoves, ProviderMoves
  DEF Handle, Moves
<1>2. ASSUME NEW p \in Purchases,
             \/ ReuseCheckout(p) \/ ResumeCheckout(p)
             \/ \E o \in Offers : CreateCheckoutPro(p, o) \/ ApplyCheckoutCoupon(p, o)
      PROVE  UNCHANGED request
  BY <1>2 DEF ReuseCheckout, ResumeCheckout, CreateCheckoutPro, ApplyCheckoutCoupon
<1>3. ASSUME NEW q \in Payments,
             \/ LoseWebhook(q)
             \/ \E s \in PaymentStatuses : PaymentChanges(q, s)
             \/ \E p \in Purchases, o \in Offers, s \in PaymentStatuses \ {"refunded"} :
                  PayPreference(q, p, o, s)
      PROVE  UNCHANGED request
  BY <1>3 DEF LoseWebhook, PaymentChanges, PayPreference
<1> QED
  BY <1>1, <1>2, <1>3 DEF Next, SetCredits

----------------------------------------------------------------------------
(* UnlockChargedOnce.  It is inductive: a CV is unlocked, and charged, by   *)
(* the two transactions that found it locked.                              *)

LEMMA UnlockStep == TypeOK /\ UnlockChargedOnce /\ [Next]_vars => UnlockChargedOnce'
<1> SUFFICES ASSUME TypeOK, UnlockChargedOnce, [Next]_vars
             PROVE  UnlockChargedOnce'
  OBVIOUS
<1>1. ASSUME NEW a \in Adaptations, adaptation[a] # "unlocked",
             adaptation' = [adaptation EXCEPT ![a] = "unlocked"],
             charges' = [charges EXCEPT ![a] = @ + 1]
      PROVE  UnlockChargedOnce'
  BY <1>1 DEF UnlockChargedOnce, TypeOK
<1>2. ASSUME UNCHANGED <<adaptation, charges>>
      PROVE  UnlockChargedOnce'
  BY <1>2 DEF UnlockChargedOnce
<1>3. ASSUME NEW h \in Requests, Approve(h)
      PROVE  UnlockChargedOnce'
  <2> DEFINE a == Origin[request[h].purchase]
  <2>1. request[h].purchase \in Purchases
    BY <1>3, InFlight DEF Approve, PurchaseSteps
  <2>2. CASE AutoUnlocks(h) /\ Transitions(request[h].purchase)
    <3>1. a \in Adaptations /\ adaptation[a] # "unlocked"
      BY <2>1, <2>2, PurchasesAssumption DEF AutoUnlocks
    <3>2. /\ adaptation' = [adaptation EXCEPT ![a] = "unlocked"]
          /\ charges' = [charges EXCEPT ![a] = @ + 1]
      BY <1>3, <2>2 DEF Approve
    <3> QED
      BY <3>1, <3>2, <1>1
  <2>3. CASE ~(AutoUnlocks(h) /\ Transitions(request[h].purchase))
    BY <1>2, <1>3, <2>3 DEF Approve, db
  <2> QED
    BY <2>2, <2>3
<1>4. ASSUME NEW h \in Requests, SpendCredit(h)
      PROVE  UnlockChargedOnce'
  <2> DEFINE a == request[h].adaptation
  <2>1. a \in Adaptations
    BY <1>4, StepKinds DEF SpendCredit, TypeOK, UnlockRequest
  <2>2. CASE StillLocked(request[h])
    <3>1. adaptation[a] # "unlocked"
      BY <2>2 DEF StillLocked
    <3>2. /\ adaptation' = [adaptation EXCEPT ![a] = "unlocked"]
          /\ charges' = [charges EXCEPT ![a] = @ + 1]
      BY <1>4, <2>2 DEF SpendCredit
    <3> QED
      BY <2>1, <3>1, <3>2, <1>1
  <2>3. CASE ~StillLocked(request[h])
    BY <1>2, <1>4, <2>3 DEF SpendCredit
  <2> QED
    BY <2>2, <2>3
<1>5. CASE UNCHANGED vars
  BY <1>2, <1>5 DEF vars
<1> QED
  BY <1>2, <1>3, <1>4, <1>5, CreditWriters
  DEF CreditsMove, credits, ReverseCredits, SetCredits, history

\* However many redemptions, claims and purchases race for a CV, it costs
\* exactly one credit (redeemWithCredit, claimGuest, auto-unlock).
THEOREM UnlocksAreChargedOnce == Spec => []UnlockChargedOnce
<1>1. Init => UnlockChargedOnce
  BY DEF Init, UnlockChargedOnce
<1>2. TypeOK /\ UnlockChargedOnce /\ [Next]_vars => UnlockChargedOnce'
  BY UnlockStep
<1> QED
  BY <1>1, <1>2, TypeCorrect, PTL DEF Spec

----------------------------------------------------------------------------
(* ReversedOnlyIfGranted.  The reversal of a refund writes balance and     *)
(* history long after it tested the purchase, so the invariant has to say  *)
(* that the row lock keeps the purchase completed and the refund alone.    *)

\* The lock a refund holds from its conditional update to its commit.
RefundHoldsRow ==
  \A h \in Requests : At(h, "reverse") => purchase[request[h].purchase].status = "completed"
OneRefundPerRow ==
  \A h, k \in Requests :
    At(h, "reverse") /\ At(k, "reverse") /\ request[h].purchase = request[k].purchase => h = k
RefundInv == RefundHoldsRow /\ OneRefundPerRow /\ ReversedOnlyIfGranted

\* Only an approval completes a purchase, and no other step but the reversal
\* writes a row that is locked.
RowStable(p) ==
  /\ purchase'[p].status = "completed" => purchase[p].status = "completed"
  /\ RowLocked(p) /\ purchase[p].status # "absent" => purchase'[p] = purchase[p]

LEMMA OtherWrites ==
  ASSUME TypeOK, Next, \A h \in Requests : ~Approve(h) /\ ~ReverseCredits(h)
  PROVE  (\A p \in Purchases : RowStable(p)) /\ UNCHANGED <<grants, reversals>>
<1> DEFINE Stable == \A p \in Purchases : RowStable(p)
<1>1. UNCHANGED purchase => Stable
  BY DEF RowStable
<1>2. ASSUME NEW q \in Purchases, NEW s \in Statuses, NEW id, Write(q, s, id),
             s = "completed" => purchase[q].status = "completed",
             ~RowLocked(q) \/ purchase[q].status = "absent"
      PROVE  Stable
  BY <1>2, OneRow DEF RowStable, Write
<1>3. ASSUME NEW q \in Purchases, NEW s \in Statuses \ {"completed"}, SetStatus(q, s), ~RowLocked(q)
      PROVE  Stable
  BY <1>2, <1>3 DEF SetStatus
<1>4. ASSUME NEW q \in Purchases, NEW s \in Statuses \ {"completed"}, NEW o, SetOffer(q, s, o),
             ~RowLocked(q) \/ purchase[q].status = "absent"
      PROVE  Stable
  BY <1>4, OneRow DEF RowStable, SetOffer
<1>5. ASSUME NEW h \in Requests, NEW p \in Purchases, NEW o \in Offers,
             CreateCheckoutBrick(h, p, o)
      PROVE  Stable
  BY <1>4, <1>5 DEF CreateCheckoutBrick, Statuses, Eligible
<1>6. ASSUME NEW p \in Purchases, NEW o \in Offers, CreateCheckoutPro(p, o)
      PROVE  Stable
  BY <1>4, <1>6 DEF CreateCheckoutPro, Statuses, Eligible
<1>7. ASSUME NEW h \in Requests, PublishBrick(h)
      PROVE  Stable
  <2>1. request[h].purchase \in Purchases
    BY <1>7, InFlight DEF PublishBrick, PurchaseSteps
  <2> QED
    BY <1>3, <1>7, <2>1 DEF PublishBrick, Statuses, Eligible, WriteById, SetStatus
<1>8. ASSUME NEW p \in Purchases, ReuseCheckout(p)
      PROVE  Stable
  BY <1>1, <1>3, <1>8 DEF ReuseCheckout, Statuses, Eligible
<1>9. ASSUME NEW p \in Purchases, NEW o \in Offers, ApplyCheckoutCoupon(p, o)
      PROVE  Stable
  BY <1>4, <1>9 DEF ApplyCheckoutCoupon, Statuses, Eligible
<1>10. ASSUME NEW h \in Requests, MarkFailed(h)
       PROVE  Stable
  <2>1. request[h].purchase \in Purchases
    BY <1>10, InFlight DEF MarkFailed, PurchaseSteps
  <2> QED
    BY <1>2, <1>10, <2>1 DEF MarkFailed, Statuses, WriteById
<1>11. ASSUME NEW h \in Requests, LockSubmission(h)
       PROVE  Stable
  <2>1. request[h].purchase \in Purchases
    BY <1>11, InFlight DEF LockSubmission, PurchaseSteps
  <2> QED
    BY <1>1, <1>3, <1>11, <2>1 DEF LockSubmission, Statuses, Eligible
<1>12. ASSUME NEW h \in Requests, AbortSubmission(h)
       PROVE  Stable
  <2>1. request[h].purchase \in Purchases
    BY <1>12, InFlight DEF AbortSubmission, PurchaseSteps
  <2> QED
    BY <1>3, <1>12, <2>1 DEF AbortSubmission, Statuses, Eligible, WriteById, SetStatus
<1>13. ASSUME NEW h \in Requests, AnswerBrick(h)
       PROVE  Stable
  <2>1. request[h].purchase \in Purchases /\ purchase[request[h].purchase].status \in Statuses
    BY <1>13, InFlight, RowFields DEF AnswerBrick, PurchaseSteps
  <2>2. AnswerStatus(request[h].answer) \in Statuses \ {"completed"}
    BY DEF AnswerStatus, Statuses, Eligible
  <2> QED
    BY <1>2, <1>13, <2>1, <2>2 DEF AnswerBrick, WriteById
<1>14. Stable
  BY <1>1, <1>5, <1>6, <1>7, <1>8, <1>9, <1>10, <1>11, <1>12, <1>13, RowWriters
  DEF RowWriter
<1>15. UNCHANGED <<grants, reversals>>
  BY CreditWriters DEF CreditsMove, credits, SpendCredit, SetCredits, history
<1> QED
  BY <1>14, <1>15

\* A slot comes to hold the lock of a refund only through LockForRefund.
ReverseEntered(k) ==
  At(k, "reverse")' =>
    \/ request'[k] = request[k]
    \/ /\ At(k, "lock_refund")
       /\ request'[k].purchase = request[k].purchase
       /\ purchase[request[k].purchase].status = "completed"
       /\ ~RowLocked(request[k].purchase)
       /\ UNCHANGED purchase
       /\ \A j \in Requests \ {k} : request'[j] = request[j]

LEMMA EnterReverse ==
  ASSUME TypeOK, Next
  PROVE  \A k \in Requests : ReverseEntered(k)
<1>1. CASE UNCHANGED request
  BY <1>1 DEF ReverseEntered
<1>2. ASSUME NEW h \in Requests, Moves(h), OnlySlot(h)
      PROVE  \A k \in Requests : ReverseEntered(k)
  <2>1. \A k \in Requests \ {h} : request'[k] = request[k]
    BY <1>2 DEF OnlySlot
  <2>2. request'[h].step = "reverse" => LocksRefund(h)
    BY <1>2 DEF Moves, Ends, Idle, StartsBrick, StartsReconcile, StartsWebhook, StartsUnlock, LooksUp,
       IsAnswered, GoesTo
  <2>3. ReverseEntered(h)
    BY <2>1, <2>2 DEF ReverseEntered, LocksRefund, GoesTo, RowOf, At, db
  <2> QED
    BY <2>1, <2>3 DEF ReverseEntered
<1> QED
  BY <1>1, <1>2, Moved

LEMMA RefundStep == TypeOK /\ RefundInv /\ [Next]_vars => RefundInv'
<1> SUFFICES ASSUME TypeOK, RefundInv, Next
             PROVE  RefundInv'
  BY DEF RefundInv, RefundHoldsRow, OneRefundPerRow, ReversedOnlyIfGranted, vars, At
<1> USE DEF RefundInv
<1>1. OneRefundPerRow'
  <2> SUFFICES ASSUME NEW h \in Requests, NEW k \in Requests,
                      At(h, "reverse")', At(k, "reverse")',
                      request'[h].purchase = request'[k].purchase
               PROVE  h = k
    BY DEF OneRefundPerRow, At
  <2>1. ReverseEntered(h) /\ ReverseEntered(k)
    BY EnterReverse
  <2>2. CASE request'[h] = request[h] /\ request'[k] = request[k]
    BY <2>2 DEF OneRefundPerRow, At
  <2>3. CASE request'[h] # request[h]
    BY <2>1, <2>3 DEF ReverseEntered, RowLocked, At
  <2>4. CASE request'[k] # request[k]
    BY <2>1, <2>4 DEF ReverseEntered, RowLocked, At
  <2> QED
    BY <2>2, <2>3, <2>4
<1>2. \A h \in Requests : At(h, "reverse") => request[h].purchase \in Purchases
  BY InFlight DEF PurchaseSteps
\* The slots that held a row keep it locked, and nobody else writes it.
<1>3. ASSUME \A k \in Requests : At(k, "reverse") /\ request'[k] = request[k] =>
               purchase'[request[k].purchase].status = "completed"
      PROVE  RefundHoldsRow'
  <2> SUFFICES ASSUME NEW k \in Requests, At(k, "reverse")'
               PROVE  purchase'[request'[k].purchase].status = "completed"
    BY DEF RefundHoldsRow, At
  <2>1. CASE request'[k] = request[k]
    BY <1>3, <2>1 DEF At
  <2>2. CASE request'[k] # request[k]
    BY <2>2, EnterReverse DEF ReverseEntered
  <2> QED
    BY <2>1, <2>2
<1>4. CASE \A h \in Requests : ~Approve(h) /\ ~ReverseCredits(h)
  <2>1. (\A p \in Purchases : RowStable(p)) /\ UNCHANGED <<grants, reversals>>
    BY <1>4, OtherWrites
  <2>2. RefundHoldsRow'
    BY <1>2, <1>3, <2>1 DEF RefundHoldsRow, RowStable, RowLocked, At
  <2>3. ReversedOnlyIfGranted'
    BY <2>1 DEF ReversedOnlyIfGranted, RowStable, TypeOK
  <2> QED
    BY <1>1, <2>2, <2>3
<1>5. ASSUME NEW h \in Requests, Approve(h)
      PROVE  RefundInv'
  <2> DEFINE p == request[h].purchase
  <2>1. p \in Purchases /\ ~RowLocked(p)
    BY <1>5, InFlight DEF Approve, PurchaseSteps
  <2>2. CASE Transitions(p)
    <3>1. PICK id : purchase' = [purchase EXCEPT ![p] =
            [status |-> "completed", offer |-> purchase[p].offer, mpPaymentId |-> id]]
      BY <1>5, <2>2 DEF Approve, Write
    <3>2. \A q \in Purchases : /\ q # p => purchase'[q] = purchase[q]
                               /\ q = p => purchase'[q].status = "completed"
      BY <2>1, <3>1 DEF TypeOK
    <3>3. grants' = [grants EXCEPT ![p] = @ + 1] /\ UNCHANGED reversals
      BY <1>5, <2>2 DEF Approve
    <3>4. purchase[p].status # "completed"
      BY <2>2 DEF Transitions, Eligible
    <3>5. ReversedOnlyIfGranted'
      BY <2>1, <3>2, <3>3, <3>4 DEF ReversedOnlyIfGranted, TypeOK
    <3>6. RefundHoldsRow'
      BY <1>2, <1>3, <2>1, <3>2 DEF RefundHoldsRow, RowLocked, At
    <3> QED
      BY <1>1, <3>5, <3>6
  <2>3. CASE ~Transitions(p)
    <3>1. UNCHANGED <<purchase, grants, reversals>>
      BY <1>5, <2>3 DEF Approve, db
    <3> QED
      BY <1>1, <1>3, <3>1 DEF RefundHoldsRow, ReversedOnlyIfGranted
  <2> QED
    BY <2>2, <2>3
<1>6. ASSUME NEW h \in Requests, ReverseCredits(h)
      PROVE  RefundInv'
  <2> DEFINE p == request[h].purchase
  <2>1. At(h, "reverse") /\ p \in Purchases /\ purchase[p].status = "completed"
    BY <1>2, <1>6 DEF ReverseCredits, RefundHoldsRow
  <2>2. \A q \in Purchases : /\ q # p => purchase'[q] = purchase[q]
                             /\ q = p => purchase'[q].status = "refunded"
    BY <1>6, <2>1 DEF ReverseCredits, SetStatus, Write, TypeOK
  <2>3. reversals' = [reversals EXCEPT ![p] = @ + 1] /\ UNCHANGED grants
    BY <1>6 DEF ReverseCredits
  <2>4. ReversedOnlyIfGranted'
    BY <2>1, <2>2, <2>3 DEF ReversedOnlyIfGranted, TypeOK
  <2>5. request'[h] = Idle
    BY <1>6 DEF ReverseCredits, Finish, TypeOK
  <2>6. \A k \in Requests : At(k, "reverse") /\ request'[k] = request[k] => request[k].purchase # p
    BY <2>1, <2>5 DEF OneRefundPerRow, At, Idle
  <2>7. RefundHoldsRow'
    BY <1>2, <1>3, <2>2, <2>6 DEF RefundHoldsRow
  <2> QED
    BY <1>1, <2>4, <2>7
<1> QED
  BY <1>4, <1>5, <1>6

\* handleRefundedPayment never reverses a purchase more often than it was
\* credited, however its notifications are duplicated and interleaved.
THEOREM RefundsNeedGrants == Spec => []ReversedOnlyIfGranted
<1>1. Init => RefundInv
  BY DEF Init, RefundInv, RefundHoldsRow, OneRefundPerRow, ReversedOnlyIfGranted, At, Idle, NoRow
<1>2. TypeOK /\ RefundInv /\ [Next]_vars => RefundInv'
  BY RefundStep
<1>3. RefundInv => ReversedOnlyIfGranted
  BY DEF RefundInv
<1> QED
  BY <1>1, <1>2, <1>3, TypeCorrect, PTL DEF Spec

----------------------------------------------------------------------------
(* CreditsWerePaid.  The payment is asked for, or searched for, long       *)
(* before the credits are granted: the invariant follows what a request    *)
(* was told about it.                                                      *)

Funded(pay, p) ==
  \E q \in Payments : pay[q].status \in {"approved", "refunded"} /\ pay[q].purchase = p

\* What the request goes on to do rests on a payment that was approved.
NeedsPaid(r) ==
  \/ r.step \in {"read_eligible", "approve"}
  \/ r.step \in {"look_up", "answer"} /\ r.answer = "approved"

RequestsWerePaid == \A h \in Requests : NeedsPaid(request[h]) => Funded(payment, request[h].purchase)
PaidInv == RequestsWerePaid /\ CreditsWerePaid

\* Mercado Pago takes an approval back only by a refund.
LEMMA FundedStays ==
  ASSUME TypeOK, Next
  PROVE  \A p \in Purchases : Funded(payment, p) => Funded(payment', p)
<1> DEFINE Goal == \A p \in Purchases : Funded(payment, p) => Funded(payment', p)
<1>1. UNCHANGED payment => Goal
  OBVIOUS
<1>2. ASSUME NEW q \in Payments, NEW new, payment[q] = NoPaymentYet,
             payment' = [payment EXCEPT ![q] = new]
      PROVE  Goal
  BY <1>2 DEF Funded, NoPaymentYet, TypeOK
<1>3. ASSUME NEW q \in Payments, NEW s \in PaymentStatuses, PaymentChanges(q, s)
      PROVE  Goal
  <2>1. payment[q] \in PaymentAtProvider
    BY <1>3 DEF PaymentChanges, TypeOK, PaymentStates, NoPaymentYet
  <2>2. /\ payment'[q].purchase = payment[q].purchase
        /\ payment[q].status = "approved" => payment'[q].status = "refunded"
        /\ payment[q].status # "refunded"
        /\ \A k \in Payments \ {q} : payment'[k] = payment[k]
    BY <1>3, <2>1 DEF PaymentChanges, PaymentAtProvider, TypeOK
  <2> QED
    BY <2>2 DEF Funded
<1>4. ASSUME NEW h \in Requests, NEW q \in Payments, NEW s \in PaymentStatuses \ {"refunded"},
             ProviderCreates(h, q, s)
      PROVE  Goal
  BY <1>2, <1>4 DEF ProviderCreates
<1>5. ASSUME NEW q \in Payments, NEW p \in Purchases, NEW o \in Offers,
             NEW s \in PaymentStatuses \ {"refunded"}, PayPreference(q, p, o, s)
      PROVE  Goal
  BY <1>2, <1>5 DEF PayPreference
<1> QED
  BY <1>1, <1>3, <1>4, <1>5, PaymentWriters

\* A request gets to rely on a payment only when Mercado Pago approves it.
Approved(pay, p) == \E q \in Payments : pay[q].status = "approved" /\ pay[q].purchase = p

LEMMA NewReliance ==
  ASSUME NEW h \in Requests, Moves(h), NeedsPaid(request'[h])
  PROVE  \/ NeedsPaid(request[h]) /\ request'[h].purchase = request[h].purchase
         \/ Approved(payment', request'[h].purchase)
<1>1. CASE \/ StartsReconcile(h) \/ StartsWebhook(h)
  BY <1>1 DEF StartsReconcile, StartsWebhook, ApprovedByReference, NeedsPaid, Approved, mp
<1>2. CASE LooksUp(h) \/ IsAnswered(h)
  BY <1>2 DEF LooksUp, IsAnswered, GoesTo, NeedsPaid, Approved, At
<1>3. CASE \/ At(h, "read_eligible") /\ GoesTo(h, "approve")
           \/ At(h, "answer") /\ GoesTo(h, "read_eligible") /\ request[h].answer = "approved"
  BY <1>3 DEF GoesTo, NeedsPaid, At
<1>4. ~(Ends(h) \/ StartsBrick(h) \/ StartsUnlock(h) \/ LocksRefund(h) \/ GoesTo(h, "call_provider"))
  BY DEF Ends, Idle, StartsBrick, StartsUnlock, LocksRefund, GoesTo, NeedsPaid
<1> QED
  BY <1>1, <1>2, <1>3, <1>4 DEF Moves, AnswerBrick

LEMMA RequestsStayPaid ==
  ASSUME TypeOK, RequestsWerePaid, Next
  PROVE  RequestsWerePaid'
<1>0. \A k \in Requests : NeedsPaid(request[k]) =>
        request[k].purchase \in Purchases /\ Funded(payment', request[k].purchase)
  <2> SUFFICES ASSUME NEW k \in Requests, NeedsPaid(request[k])
               PROVE  request[k].purchase \in Purchases /\ Funded(payment', request[k].purchase)
    OBVIOUS
  <2>1. request[k].step \in PurchaseSteps
    BY DEF NeedsPaid, PurchaseSteps
  <2>2. request[k].purchase \in Purchases
    BY <2>1, InFlight DEF At
  <2> QED
    BY <2>2, FundedStays DEF RequestsWerePaid
<1>1. CASE UNCHANGED request
  BY <1>0, <1>1 DEF RequestsWerePaid
<1>2. ASSUME NEW h \in Requests, Moves(h), OnlySlot(h)
      PROVE  RequestsWerePaid'
  BY <1>0, <1>2, NewReliance DEF OnlySlot, RequestsWerePaid, Approved, Funded
<1> QED
  BY <1>1, <1>2, Moved

LEMMA PaidStep == TypeOK /\ PaidInv /\ [Next]_vars => PaidInv'
<1> SUFFICES ASSUME TypeOK, PaidInv, Next
             PROVE  PaidInv'
  BY DEF PaidInv, RequestsWerePaid, CreditsWerePaid, PaidFor, vars
<1>1. RequestsWerePaid'
  BY RequestsStayPaid DEF PaidInv
<1>2. \A p \in Purchases : grants[p] > 0 => Funded(payment', p)
  BY FundedStays DEF PaidInv, CreditsWerePaid, PaidFor, Funded
<1>3. ASSUME \A p \in Purchases : grants'[p] > 0 => Funded(payment', p)
      PROVE  PaidInv'
  BY <1>1, <1>3 DEF PaidInv, CreditsWerePaid, PaidFor, Funded
<1>4. CASE UNCHANGED grants
  BY <1>2, <1>3, <1>4
<1>5. ASSUME NEW h \in Requests, Approve(h)
      PROVE  PaidInv'
  <2> DEFINE p == request[h].purchase
  <2>1. p \in Purchases
    BY <1>5, InFlight DEF Approve, PurchaseSteps
  <2>2. Funded(payment', p)
    BY <1>5, <2>1, FundedStays DEF Approve, At, PaidInv, RequestsWerePaid, NeedsPaid
  <2>3. grants' = [grants EXCEPT ![p] = @ + 1] \/ UNCHANGED grants
    BY <1>5 DEF Approve
  <2>4. \A k \in Purchases : k # p => grants'[k] = grants[k]
    BY <2>3 DEF TypeOK
  <2> QED
    BY <1>2, <1>3, <2>2, <2>4
<1>6. ASSUME NEW h \in Requests, ReverseCredits(h)
      PROVE  UNCHANGED grants
  BY <1>6 DEF ReverseCredits
<1> QED
  BY <1>4, <1>5, <1>6, OtherWrites

\* Credits are granted only for a payment Mercado Pago approved, whichever
\* of the webhook, the Brick answer and reconciliation grants them.
THEOREM GrantsNeedPayments == Spec => []CreditsWerePaid
<1>1. Init => PaidInv
  BY DEF Init, PaidInv, RequestsWerePaid, CreditsWerePaid, NeedsPaid, Idle
<1>2. TypeOK /\ PaidInv /\ [Next]_vars => PaidInv'
  BY PaidStep
<1>3. PaidInv => CreditsWerePaid
  BY DEF PaidInv
<1> QED
  BY <1>1, <1>2, <1>3, TypeCorrect, PTL DEF Spec

----------------------------------------------------------------------------
(* CreditLedger, with Checkout Pro alone.  A purchase leaves "none" once   *)
(* and for good: no status is written that an approval would accept.       *)

ProOnly == "brick" \notin CheckoutModes

ProStatuses == {"absent", "none", "completed", "failed", "refunded"}
ProRows == \A p \in Purchases : purchase[p].status \in ProStatuses
NoBrickRequest ==
  \A h \in Requests : request[h].step \notin {"publish", "lock_submit", "call_provider", "answer"}
CreditedOnce ==
  \A p \in Purchases :
    grants[p] <= 1 /\ (grants[p] > 0 => purchase[p].status \in {"completed", "failed", "refunded"})
ProInv == ProRows /\ NoBrickRequest /\ CreditedOnce

\* A row that no payment can settle any more never becomes payable, and no
\* row gets a status of the Brick.
ProWrite(p) ==
  /\ purchase'[p].status \in ProStatuses
  /\ purchase[p].status \in {"completed", "failed", "refunded"} =>
       purchase'[p].status \in {"completed", "failed", "refunded"}

LEMMA ProWrites ==
  ASSUME ProOnly, TypeOK, ProInv, Next
  PROVE  \A p \in Purchases : ProWrite(p)
<1> DEFINE Goal == \A p \in Purchases : ProWrite(p)
<1> USE DEF ProInv
<1>1. UNCHANGED purchase => Goal
  BY DEF ProWrite, ProRows
<1>2. ASSUME NEW q \in Purchases, NEW s \in {"completed", "failed", "refunded"}, NEW id, Write(q, s, id)
      PROVE  Goal
  BY <1>2, OneRow DEF ProWrite, ProRows, ProStatuses, Write, Statuses
<1>3. ASSUME NEW h \in Requests,
             \/ PublishBrick(h) \/ LockSubmission(h) \/ AbortSubmission(h) \/ AnswerBrick(h)
      PROVE  FALSE
  BY <1>3 DEF PublishBrick, LockSubmission, AbortSubmission, AnswerBrick, At, NoBrickRequest
<1>4. ASSUME NEW h \in Requests, NEW p \in Purchases, NEW o \in Offers,
             CreateCheckoutBrick(h, p, o)
      PROVE  FALSE
  BY <1>4 DEF CreateCheckoutBrick, ProOnly
<1>5. ASSUME NEW p \in Purchases, NEW o \in Offers, CreateCheckoutPro(p, o)
      PROVE  Goal
  BY <1>5, OneRow DEF CreateCheckoutPro, SetOffer, ProWrite, ProRows, ProStatuses, Statuses, Eligible
<1>6. ASSUME NEW p \in Purchases, ReuseCheckout(p)
      PROVE  Goal
  BY <1>1, <1>6 DEF ReuseCheckout, ProOnly
<1>7. ASSUME NEW p \in Purchases, NEW o \in Offers, ApplyCheckoutCoupon(p, o)
      PROVE  FALSE
  BY <1>7 DEF ApplyCheckoutCoupon, ProRows, ProStatuses
<1>8. ASSUME NEW h \in Requests, MarkFailed(h) \/ ReverseCredits(h) \/ Approve(h)
      PROVE  Goal
  <2>1. request[h].purchase \in Purchases
    BY <1>8, InFlight DEF MarkFailed, ReverseCredits, Approve, PurchaseSteps
  <2>2. CASE MarkFailed(h)
    BY <1>2, <2>1, <2>2 DEF MarkFailed, WriteById
  <2>3. CASE ReverseCredits(h)
    BY <1>2, <2>1, <2>3 DEF ReverseCredits, SetStatus
  <2>4. CASE Approve(h)
    BY <1>1, <1>2, <2>1, <2>4 DEF Approve, db
  <2> QED
    BY <1>8, <2>2, <2>3, <2>4
<1> QED
  BY <1>1, <1>3, <1>4, <1>5, <1>6, <1>7, <1>8, RowWriters DEF RowWriter

LEMMA NoBrickStep ==
  ASSUME ProOnly, TypeOK, ProInv, Next
  PROVE  NoBrickRequest'
<1>1. CASE UNCHANGED request
  BY <1>1 DEF NoBrickRequest, ProInv
<1>2. ASSUME NEW h \in Requests, Moves(h), OnlySlot(h)
      PROVE  NoBrickRequest'
  <2>1. ~(StartsBrick(h) \/ LockSubmission(h) \/ AnswerBrick(h) \/ IsAnswered(h))
    BY DEF StartsBrick, LockSubmission, AnswerBrick, IsAnswered, At, ProOnly, NoBrickRequest, ProInv
  <2>2. request'[h].step \notin {"publish", "lock_submit", "call_provider", "answer"}
    BY <1>2, <2>1 DEF Moves, Ends, Idle, StartsReconcile, StartsWebhook, StartsUnlock, LooksUp,
       LocksRefund, GoesTo
  <2> QED
    BY <1>2, <2>2 DEF OnlySlot, NoBrickRequest, ProInv
<1> QED
  BY <1>1, <1>2, Moved

LEMMA ProStep == ProOnly /\ TypeOK /\ ProInv /\ [Next]_vars => ProInv'
<1> SUFFICES ASSUME ProOnly, TypeOK, ProInv, Next
             PROVE  ProInv'
  BY DEF ProInv, ProRows, NoBrickRequest, CreditedOnce, vars
<1>1. ProRows' /\ NoBrickRequest'
  BY ProWrites, NoBrickStep DEF ProWrite, ProRows
<1>2. CASE UNCHANGED grants
  <2>1. CreditedOnce'
    BY <1>2, ProWrites DEF CreditedOnce, ProWrite, ProInv
  <2> QED
    BY <1>1, <2>1 DEF ProInv
<1>3. ASSUME NEW h \in Requests, Approve(h)
      PROVE  ProInv'
  <2> DEFINE p == request[h].purchase
  <2>1. p \in Purchases /\ purchase[p] \in Row
    BY <1>3, InFlight DEF Approve, PurchaseSteps
  <2>2. CASE Transitions(p)
    <3>1. Write(p, "completed", IF /\ request[h].job = "webhook"
                                   /\ request[h].seen.mpPaymentId = NoPayment
                                THEN request[h].payment ELSE purchase[p].mpPaymentId)
      BY <1>3, <2>2 DEF Approve
    <3>2. purchase'[p].status = "completed"
      BY <2>1, <3>1 DEF Write, TypeOK
    <3>3. grants' = [grants EXCEPT ![p] = @ + 1]
      BY <1>3, <2>2 DEF Approve
    <3>4. grants[p] = 0
      BY <2>1, <2>2 DEF Transitions, Eligible, ProInv, CreditedOnce, TypeOK
    <3>5. CreditedOnce'
      BY <2>1, <3>2, <3>3, <3>4, ProWrites DEF CreditedOnce, ProWrite, ProInv, TypeOK
    <3> QED
      BY <1>1, <3>5 DEF ProInv
  <2>3. CASE ~Transitions(p)
    BY <1>2, <1>3, <2>3 DEF Approve
  <2> QED
    BY <2>2, <2>3
<1>4. ASSUME NEW h \in Requests, ReverseCredits(h)
      PROVE  UNCHANGED grants
  BY <1>4 DEF ReverseCredits
<1> QED
  BY <1>2, <1>3, <1>4, OtherWrites

LEMMA ProInvHolds == ASSUME ProOnly PROVE Spec => []ProInv
<1>1. Init => ProInv
  BY DEF Init, ProInv, ProRows, ProStatuses, NoBrickRequest, CreditedOnce, NoRow, Idle
<1>2. TypeOK /\ ProInv /\ [Next]_vars => ProInv'
  BY ProStep
<1> QED
  BY <1>1, <1>2, TypeCorrect, PTL DEF Spec

LEMMA RefundInvHolds == Spec => []RefundInv
<1>1. Init => RefundInv
  BY DEF Init, RefundInv, RefundHoldsRow, OneRefundPerRow, ReversedOnlyIfGranted, At, Idle, NoRow
<1>2. TypeOK /\ RefundInv /\ [Next]_vars => RefundInv'
  BY RefundStep
<1> QED
  BY <1>1, <1>2, TypeCorrect, PTL DEF Spec

\* The steps that move no credits leave the ledger alone.
LEMMA LedgerIdle ==
  ASSUME Next,
         \A h \in Requests : ~Approve(h) /\ ~ReverseCredits(h) /\ ~SpendCredit(h),
         \A u \in Users, n \in AdminCredits : ~SetCredits(u, n)
  PROVE  UNCHANGED <<grants, reversals, adaptation, balance>>
  BY CreditWriters DEF CreditsMove, credits

Granted == {p \in Purchases : grants[p] > 0}
Reversed == {p \in Purchases : reversals[p] > 0}
Unlocked == {a \in Adaptations : adaptation[a] = "unlocked"}

LEMMA LedgerSteps ==
  /\ \A p \in Purchases : Ledger!Grant(p) => Ledger!Next
  /\ \A p \in Purchases : Ledger!Reverse(p) => Ledger!Next
  /\ \A a \in Adaptations : Ledger!Unlock(a) => Ledger!Next
  BY DEF Ledger!Next

\* An approval that counts is the ledger's grant.
LEMMA ApproveGrants ==
  ASSUME TypeOK, CreditedOnce, NEW h \in Requests, Approve(h)
  PROVE  [Ledger!Next]_Ledger!vars
<1> DEFINE r == request[h]
<1>0. PICK p \in Purchases : p = r.purchase
  BY InFlight DEF Approve, PurchaseSteps
<1>1. r.seen.offer \in Offers
  BY InFlight, RequestFields, RowFields DEF Approve, PurchaseSteps
<1>2. CASE ~Transitions(p)
  BY <1>0, <1>2 DEF Approve, Ledger!vars, db
<1>3. CASE Transitions(p)
  <2>1. /\ grants' = [grants EXCEPT ![p] = @ + 1]
        /\ UNCHANGED reversals
    BY <1>0, <1>3 DEF Approve
  <2>2. grants[p] = 0
    BY <1>0, <1>1, <1>3 DEF Transitions, Eligible, CreditedOnce, TypeOK
  <2>3. p \notin Granted /\ Granted' = Granted \cup {p} /\ UNCHANGED Reversed
    BY <1>1, <2>1, <2>2 DEF Granted, Reversed, TypeOK
  <2>4. \/ /\ balance' = [balance EXCEPT ![Owner[p]] = @ + Credits[r.seen.offer]]
           /\ UNCHANGED Unlocked
        \/ /\ Origin[p] \in Adaptations \ Unlocked
           /\ Unlocked' = Unlocked \cup {Origin[p]}
           /\ balance' = [balance EXCEPT ![Owner[p]] = @ + Credits[r.seen.offer] - 1]
    <3>1. CASE AutoUnlocks(h)
      <4>1. Origin[p] \in Adaptations /\ adaptation[Origin[p]] = "locked"
        BY <1>0, <3>1, PurchasesAssumption DEF AutoUnlocks
      <4>2. /\ adaptation' = [adaptation EXCEPT ![Origin[p]] = "unlocked"]
            /\ balance' = [balance EXCEPT ![Owner[p]] = @ + Credits[r.seen.offer] - 1]
        BY <1>0, <1>3, <3>1 DEF Approve
      <4>3. Unlocked' = Unlocked \cup {Origin[p]}
        BY <4>1, <4>2 DEF Unlocked, TypeOK
      <4> QED
        BY <4>1, <4>2, <4>3 DEF Unlocked
    <3>2. CASE ~AutoUnlocks(h)
      BY <1>0, <1>3, <3>2 DEF Approve, Unlocked
    <3> QED
      BY <3>1, <3>2
  <2>5. Ledger!Grant(p)
    BY <1>1, <2>3, <2>4 DEF Ledger!Grant, Granted, Reversed, Unlocked
  <2> QED
    BY <1>1, <2>5, LedgerSteps
<1> QED
  BY <1>2, <1>3

\* The refund takes back what is left of one grant.
LEMMA RefundReverses ==
  ASSUME TypeOK, CreditedOnce, RefundInv, NEW h \in Requests, ReverseCredits(h)
  PROVE  Ledger!Next
<1> DEFINE r == request[h]
<1>0. PICK p \in Purchases : p = r.purchase
  BY InFlight DEF ReverseCredits, PurchaseSteps
<1>1. r.seen.offer \in Offers /\ r.funds \in Int
  BY InFlight, RequestFields, RowFields DEF ReverseCredits, PurchaseSteps
<1>2. purchase[p].status = "completed"
  BY <1>0 DEF ReverseCredits, RefundInv, RefundHoldsRow
<1>3. grants[p] > 0 /\ reversals[p] = 0
  <2>1. grants[p] <= 1 /\ reversals[p] + 1 <= grants[p]
    BY <1>1, <1>2 DEF RefundInv, ReversedOnlyIfGranted, CreditedOnce
  <2>2. grants[p] \in Nat /\ reversals[p] \in Nat
    BY <1>1 DEF TypeOK
  <2> QED
    BY <2>1, <2>2
<1>4. /\ reversals' = [reversals EXCEPT ![p] = @ + 1]
      /\ UNCHANGED <<grants, adaptation>>
      /\ balance' = [balance EXCEPT ![Owner[p]] = @ - Reversible(r)]
  BY <1>0 DEF ReverseCredits
<1>5. p \in Granted \ Reversed /\ Reversed' = Reversed \cup {p}
  BY <1>1, <1>3, <1>4 DEF Granted, Reversed, TypeOK
<1>6. Owner[p] \in Users /\ Credits[r.seen.offer] \in Int
  BY <1>1, PurchasesAssumption
<1>7. Reversible(r) \in Int /\ Reversible(r) <= Credits[r.seen.offer]
  BY <1>1, <1>6 DEF Reversible
<1>8. /\ balance[Owner[p]] - balance'[Owner[p]] <= Credits[r.seen.offer]
      /\ \A u \in Users \ {Owner[p]} : balance'[u] = balance[u]
  <2> DEFINE n == Reversible(r)
             u == Owner[p]
  <2>1. balance \in [Users -> Int] /\ balance[u] \in Int
    BY <1>6 DEF TypeOK
  <2>2. balance'[u] = balance[u] - n /\ \A v \in Users \ {u} : balance'[v] = balance[v]
    BY <1>4, <1>6, <2>1
  <2> HIDE DEF n, u
  <2> QED
    BY <1>6, <1>7, <2>1, <2>2 DEF n, u
<1>9. Ledger!Reverse(p)
  BY <1>1, <1>4, <1>5, <1>8 DEF Ledger!Reverse, Granted, Reversed
<1> QED
  BY <1>1, <1>9, LedgerSteps

\* A redemption and a claim are the ledger's unlock, or change nothing.
LEMMA SpendUnlocks ==
  ASSUME TypeOK, NEW h \in Requests, SpendCredit(h)
  PROVE  [Ledger!Next]_Ledger!vars
<1>1. PICK a \in Adaptations : a = request[h].adaptation
  BY StepKinds DEF SpendCredit, TypeOK, UnlockRequest
<1>2. CASE ~StillLocked(request[h])
  BY <1>2 DEF SpendCredit, Ledger!vars
<1>3. CASE StillLocked(request[h])
  <2>1. adaptation[a] # "unlocked"
    BY <1>1, <1>3 DEF StillLocked
  <2>2. /\ adaptation' = [adaptation EXCEPT ![a] = "unlocked"]
        /\ balance' = [balance EXCEPT ![Owner[a]] = @ - 1]
        /\ UNCHANGED <<grants, reversals>>
    BY <1>1, <1>3 DEF SpendCredit
  <2>3. a \notin Unlocked /\ Unlocked' = Unlocked \cup {a}
    BY <1>1, <2>1, <2>2 DEF Unlocked, TypeOK
  <2>4. Ledger!Unlock(a)
    BY <2>2, <2>3 DEF Ledger!Unlock, Unlocked
  <2> QED
    BY <1>1, <2>4, LedgerSteps
<1> QED
  BY <1>2, <1>3

LEMMA StepOfLedger ==
  ASSUME TypeOK, CreditedOnce, RefundInv, [Next]_vars
  PROVE  [Ledger!Next]_Ledger!vars
<1>1. CASE UNCHANGED <<grants, reversals, adaptation, balance>>
  BY <1>1 DEF Ledger!vars
<1>2. CASE UNCHANGED vars
  BY <1>1, <1>2 DEF vars
<1>3. ASSUME NEW u \in Users, NEW n \in AdminCredits, SetCredits(u, n)
      PROVE  Ledger!Next
  <2>1. Ledger!SetCredits(u, n)
    BY <1>3 DEF SetCredits, Ledger!SetCredits, history
  <2> QED
    BY <2>1 DEF Ledger!Next
<1> QED
  BY <1>1, <1>2, <1>3, LedgerIdle, ApproveGrants, RefundReverses, SpendUnlocks

(* With Checkout Pro alone, whatever interleaves, dies or is delivered     *)
(* twice, purchases, refunds and redemptions move credits as CreditLedger  *)
(* allows: a purchase is credited once, reversed at most once and by no    *)
(* more than an offer grants, and a CV costs one credit, once.             *)
THEOREM ProKeepsTheLedger == ASSUME ProOnly PROVE Spec => LedgerSpec
<1>1. Init => Ledger!Init
  BY DEF Init, Ledger!Init
<1>2. TypeOK /\ ProInv /\ RefundInv /\ [Next]_vars => [Ledger!Next]_Ledger!vars
  BY StepOfLedger DEF ProInv
<1> QED
  BY <1>1, <1>2, TypeCorrect, ProInvHolds, RefundInvHolds, PTL DEF Spec, LedgerSpec, Ledger!Spec

----------------------------------------------------------------------------
(* Credits stay accounted for while requests overlap, in both modes of     *)
(* checkout: a CV costs one credit, a grant has its payment, a reversal    *)
(* has its grant.                                                          *)
THEOREM CreditsAccounted == Spec => []CreditsAreAccounted
<1>1. UnlockChargedOnce /\ CreditsWerePaid /\ ReversedOnlyIfGranted => CreditsAreAccounted
  BY DEF CreditsAreAccounted
<1> QED
  BY <1>1, UnlocksAreChargedOnce, GrantsNeedPayments, RefundsNeedGrants, PTL

----------------------------------------------------------------------------
(* Requests that overlap, in both modes of checkout.  Statuses are written *)
(* by id, long after they were read.  Where no request wrote over a status *)
(* that it had not read (`overwritten'), the conditional updates and the   *)
(* row lock of the refund are enough: purchases that settle stay settled,  *)
(* are credited once, and what is refunded is reversed.                    *)

Settled == {"completed", "failed", "refunded"}

\* A request that is to mark a purchase failed had not found it completed.
FailsOpen == \A h \in Requests : At(h, "write_failed") => request[h].seen.status # "completed"

LEMMA FailsOpenStep == TypeOK /\ FailsOpen /\ [Next]_vars => FailsOpen'
<1> SUFFICES ASSUME TypeOK, FailsOpen, Next
             PROVE  FailsOpen'
  BY DEF FailsOpen, At, vars
<1>1. CASE UNCHANGED request
  BY <1>1 DEF FailsOpen, At
<1>2. ASSUME NEW h \in Requests, Moves(h), OnlySlot(h)
      PROVE  FailsOpen'
  <2>1. request'[h].step = "write_failed" => LooksUp(h)
    BY <1>2 DEF Moves, Ends, Idle, StartsBrick, StartsReconcile, StartsWebhook, StartsUnlock,
       LocksRefund, IsAnswered, GoesTo
  <2>2. request'[h].step = "write_failed" => request'[h].seen.status # "completed"
    BY <2>1 DEF LooksUp, GoesTo
  <2> QED
    BY <1>2, <2>2 DEF FailsOpen, OnlySlot, At
<1> QED
  BY <1>1, <1>2, Moved

LEMMA FailsOpenHolds == Spec => []FailsOpen
<1>1. Init => FailsOpen
  BY DEF Init, FailsOpen, At, Idle
<1> QED
  BY <1>1, FailsOpenStep, TypeCorrect, PTL DEF Spec

\* What was written over is never forgotten.
LEMMA OverwritesGrow ==
  ASSUME Next
  PROVE  overwritten \subseteq overwritten'
<1>1. ASSUME NEW h \in Requests, Handle(h)
      PROVE  overwritten \subseteq overwritten'
  <2>1. PublishBrick(h) \/ MarkFailed(h) \/ AbortSubmission(h) \/ AnswerBrick(h)
        => overwritten \subseteq overwritten'
    BY DEF PublishBrick, MarkFailed, AbortSubmission, AnswerBrick, WriteById, history
  <2>2. \/ ReadEligible(h) \/ LookUpPurchase(h) \/ LockForRefund(h) \/ LockSubmission(h)
        \/ ProviderUnreachable(h)
        \/ \E q \in Payments, s \in PaymentStatuses \ {"refunded"} : ProviderCreates(h, q, s)
        => UNCHANGED overwritten
    BY DEF ReadEligible, LookUpPurchase, LockForRefund, LockSubmission, ProviderUnreachable,
       ProviderCreates, history
  <2>3. Approve(h) \/ ReverseCredits(h) \/ SpendCredit(h) => UNCHANGED overwritten
    BY DEF Approve, ReverseCredits, SpendCredit
  <2> QED
    BY <1>1, <2>1, <2>2, <2>3 DEF Handle
<1>2. ASSUME NEW h \in Requests, Start(h) \/ Crash(h)
      PROVE  UNCHANGED overwritten
  BY <1>2 DEF Start, CreateCheckoutBrick, SubmitBrickPayment, ReconcilePending, ReconcileOne,
     StartReconcile, ReceiveWebhook, RedeemWithCredit, ClaimGuest, StartUnlock, Crash, history
<1>3. ASSUME NEW p \in Purchases,
             \/ ReuseCheckout(p) \/ ResumeCheckout(p)
             \/ \E o \in Offers : CreateCheckoutPro(p, o) \/ ApplyCheckoutCoupon(p, o)
      PROVE  UNCHANGED overwritten
  BY <1>3 DEF ReuseCheckout, ResumeCheckout, CreateCheckoutPro, ApplyCheckoutCoupon, history
<1>4. ASSUME NEW q \in Payments,
             \/ LoseWebhook(q)
             \/ \E s \in PaymentStatuses : PaymentChanges(q, s)
             \/ \E p \in Purchases, o \in Offers, s \in PaymentStatuses \ {"refunded"} :
                  PayPreference(q, p, o, s)
      PROVE  UNCHANGED overwritten
  BY <1>4 DEF LoseWebhook, PaymentChanges, PayPreference, history
<1>5. ASSUME NEW u \in Users, NEW n \in AdminCredits, SetCredits(u, n)
      PROVE  UNCHANGED overwritten
  BY <1>5 DEF SetCredits, history
<1> QED
  BY <1>1, <1>2, <1>3, <1>4, <1>5 DEF Next

\* A settled purchase stays settled, and only a refund ends a completed one.
RowMovesOn(p) ==
  /\ purchase[p].status \in Statuses \ (Eligible \cup {"absent"}) => purchase'[p].status \notin Eligible
  /\ purchase[p].status = "completed" => purchase'[p].status \in {"completed", "refunded"}

\* What customers do to a row between two steps of a request.
CustomerRow(p) ==
  \/ purchase'[p] = purchase[p]
  \/ purchase[p].status = "absent" /\ purchase'[p].status = "none"
  \/ purchase[p].status \in {"none", "pending"} /\ purchase'[p].status = "pending"

LEMMA CustomerRows ==
  ASSUME TypeOK, Next, \A h \in Requests : ~RowWriter(h)
  PROVE  \A p \in Purchases : CustomerRow(p)
<1> DEFINE Goal == \A p \in Purchases : CustomerRow(p)
<1>1. CASE UNCHANGED purchase
  BY <1>1 DEF CustomerRow
<1>2. ASSUME NEW q \in Purchases, NEW o \in Offers, SetOffer(q, "none", o),
             purchase[q].status = "absent"
      PROVE  Goal
  BY <1>2, SetOfferRow DEF CustomerRow, Statuses, Eligible
<1>3. ASSUME NEW q \in Purchases, NEW o \in Offers, ApplyCheckoutCoupon(q, o)
      PROVE  Goal
  BY <1>3, SetOfferRow DEF ApplyCheckoutCoupon, CustomerRow, Statuses, Eligible
<1>4. ASSUME NEW q \in Purchases, ReuseCheckout(q)
      PROVE  Goal
  BY <1>1, <1>4, SetStatusRow DEF ReuseCheckout, Open, CustomerRow, Statuses, Eligible
<1> QED
  BY <1>1, <1>2, <1>3, <1>4, RowWriters DEF CreateCheckoutBrick, CreateCheckoutPro

\* What each writer makes of the row of its request, if it knew the row.
LEMMA WrittenRows ==
  ASSUME TypeOK, RefundInv, FailsOpen, NEW h \in Requests, RowWriter(h)
  PROVE  /\ request[h].purchase \in Purchases
         /\ \A p \in Purchases \ {request[h].purchase} : purchase'[p] = purchase[p]
         /\ purchase'[request[h].purchase].status = "completed" =>
              \/ purchase[request[h].purchase].status = "completed"
              \/ Approve(h) /\ Transitions(request[h].purchase)
         /\ request[h].purchase \notin overwritten' =>
              /\ RowMovesOn(request[h].purchase)
              /\ purchase[request[h].purchase].status = "completed" =>
                   ReverseCredits(h) \/ purchase'[request[h].purchase].status = "completed"
<1> DEFINE p == request[h].purchase
           old == purchase[p].status
<1>1. p \in Purchases /\ old \in Statuses
  BY InFlight, RowFields DEF RowWriter, PublishBrick, Approve, MarkFailed, ReverseCredits,
     LockSubmission, AbortSubmission, AnswerBrick, PurchaseSteps
<1>2. ASSUME NEW s \in Statuses, NEW id, Write(p, s, id)
      PROVE  /\ \A q \in Purchases \ {p} : purchase'[q] = purchase[q]
             /\ purchase'[p].status = s
  BY <1>1, <1>2 DEF Write, TypeOK
<1>3. CASE UNCHANGED purchase
  BY <1>1, <1>3 DEF RowMovesOn
<1>4. ASSUME NEW s, NEW id, WriteById(h, s, id), p \notin overwritten'
      PROVE  old = Known(request[h])
  BY <1>4 DEF WriteById
<1>5. CASE PublishBrick(h)
  <2>1. \E id : WriteById(h, "pending", id) /\ Write(p, "pending", id)
    BY <1>5 DEF PublishBrick, WriteById
  <2>2. Known(request[h]) = "none"
    BY <1>5 DEF PublishBrick, At, Known
  <2> QED
    BY <1>1, <1>2, <1>4, <2>1, <2>2 DEF RowMovesOn, Statuses, Eligible
<1>6. CASE Approve(h) /\ Transitions(p)
  <2>1. \E id : Write(p, "completed", id)
    BY <1>6 DEF Approve
  <2> QED
    BY <1>1, <1>2, <1>6, <2>1 DEF RowMovesOn, Transitions, Statuses, Eligible
<1>7. CASE Approve(h) /\ ~Transitions(p)
  BY <1>3, <1>7 DEF Approve, db
<1>8. CASE MarkFailed(h)
  <2>1. \E id : WriteById(h, "failed", id) /\ Write(p, "failed", id)
    BY <1>8 DEF MarkFailed, WriteById
  <2>2. Known(request[h]) # "completed"
    BY <1>8 DEF MarkFailed, At, Known, FailsOpen
  <2> QED
    BY <1>1, <1>2, <1>4, <2>1, <2>2 DEF RowMovesOn, Statuses, Eligible
<1>9. CASE ReverseCredits(h)
  <2>1. old = "completed" /\ SetStatus(p, "refunded")
    BY <1>9 DEF ReverseCredits, RefundInv, RefundHoldsRow
  <2> QED
    BY <1>1, <1>2, <1>9, <2>1 DEF SetStatus, RowMovesOn, Statuses, Eligible
<1>10. CASE LockSubmission(h)
  <2>1. \/ UNCHANGED purchase
        \/ old = "pending" /\ SetStatus(p, "processing_payment")
    BY <1>10 DEF LockSubmission
  <2> QED
    BY <1>1, <1>2, <1>3, <2>1 DEF SetStatus, RowMovesOn, Statuses, Eligible
<1>11. CASE AbortSubmission(h) \/ (AnswerBrick(h) /\ ~Paid(request[h].answer))
  <2>1. \E s \in {"pending", "pending_payment"} : \E id : WriteById(h, s, id) /\ Write(p, s, id)
    BY <1>11 DEF AbortSubmission, AnswerBrick, AnswerStatus, WriteById
  <2>2. Known(request[h]) = "processing_payment"
    BY <1>11 DEF AbortSubmission, AnswerBrick, At, Known
  <2> QED
    BY <1>1, <1>2, <1>4, <2>1, <2>2 DEF RowMovesOn, Statuses, Eligible
<1>12. CASE AnswerBrick(h) /\ Paid(request[h].answer)
  <2>1. \E id : Write(p, old, id)
    BY <1>12 DEF AnswerBrick
  <2> QED
    BY <1>1, <1>2, <2>1 DEF RowMovesOn, Statuses, Eligible
<1> QED
  BY <1>1, <1>5, <1>6, <1>7, <1>8, <1>9, <1>10, <1>11, <1>12 DEF RowWriter

\* The status of a settled purchase, step by step.
LEMMA RowsMoveOn ==
  ASSUME TypeOK, RefundInv, FailsOpen, [Next]_vars
  PROVE  \A p \in Purchases \ overwritten' : RowMovesOn(p)
<1>1. CASE UNCHANGED vars
  BY <1>1 DEF vars, RowMovesOn
<1>2. CASE Next /\ \A h \in Requests : ~RowWriter(h)
  BY <1>2, CustomerRows DEF CustomerRow, RowMovesOn, Eligible
<1>3. ASSUME NEW h \in Requests, RowWriter(h)
      PROVE  \A p \in Purchases \ overwritten' : RowMovesOn(p)
  BY <1>3, WrittenRows DEF RowMovesOn
<1> QED
  BY <1>1, <1>2, <1>3

(* In both modes of checkout, however requests overlap and die and         *)
(* notifications are lost or repeated, a settled purchase is never opened  *)
(* for payment again and a credited one is left only by a refund, unless   *)
(* a request wrote by id over a status it had not read.                    *)
THEOREM SettledStaysSettled == Spec => SettledNeverReopens
<1>1. TypeOK /\ RefundInv /\ FailsOpen /\ [Next]_vars =>
        [\A p \in Purchases \ overwritten' : RowMovesOn(p)]_vars
  BY RowsMoveOn
<1>2. [\A p \in Purchases \ overwritten' : RowMovesOn(p)]_vars =>
        [\A p \in Purchases \ overwritten' :
           /\ purchase[p].status \in Statuses \ (Eligible \cup {"absent"}) =>
                purchase'[p].status \notin Eligible
           /\ purchase[p].status = "completed" =>
                purchase'[p].status \in {"completed", "refunded"}]_vars
  BY DEF RowMovesOn
<1> QED
  BY <1>1, <1>2, TypeCorrect, RefundInvHolds, FailsOpenHolds, PTL DEF Spec, SettledNeverReopens

----------------------------------------------------------------------------
(* CreditLedger in both modes of checkout.  A credited purchase is settled *)
(* and stays so: it is not credited again.                                 *)

\* No row goes away.
LEMMA RowsStayThere ==
  ASSUME TypeOK, Next
  PROVE  \A p \in Purchases : purchase[p].status # "absent" => purchase'[p].status # "absent"
<1> DEFINE Goal == \A p \in Purchases : purchase[p].status # "absent" => purchase'[p].status # "absent"
<1>1. CASE \A h \in Requests : ~RowWriter(h)
  BY <1>1, CustomerRows DEF CustomerRow
<1>2. ASSUME NEW q \in Purchases, NEW s, NEW id, Write(q, s, id),
             s # "absent" \/ s = purchase[q].status
      PROVE  Goal
  BY <1>2 DEF Write, TypeOK
<1>3. ASSUME NEW h \in Requests, RowWriter(h)
      PROVE  Goal
  <2>1. request[h].purchase \in Purchases
    BY <1>3, InFlight DEF RowWriter, PublishBrick, Approve, MarkFailed, ReverseCredits,
       LockSubmission, AbortSubmission, AnswerBrick, PurchaseSteps
  <2>2. \/ UNCHANGED purchase
        \/ \E s, id : Write(request[h].purchase, s, id)
                       /\ (s # "absent" \/ s = purchase[request[h].purchase].status)
    <3>1. CASE PublishBrick(h) \/ MarkFailed(h) \/ ReverseCredits(h) \/ AbortSubmission(h)
      BY <3>1 DEF PublishBrick, MarkFailed, ReverseCredits, AbortSubmission, SetStatus, WriteById
    <3>2. CASE Approve(h)
      BY <3>2 DEF Approve, db
    <3>3. CASE LockSubmission(h) \/ AnswerBrick(h)
      BY <3>3 DEF LockSubmission, AnswerBrick, AnswerStatus, SetStatus, WriteById
    <3> QED
      BY <1>3, <3>1, <3>2, <3>3 DEF RowWriter
  <2> QED
    BY <1>2, <2>1, <2>2
<1> QED
  BY <1>1, <1>3

\* Only an approval credits a purchase, and only one that is payable.
LEMMA GrantsMove ==
  ASSUME TypeOK, RefundInv, Next, NEW p \in Purchases
  PROVE  \/ grants'[p] = grants[p]
         \/ /\ grants'[p] = grants[p] + 1
            /\ purchase[p].status \in Eligible /\ purchase'[p].status = "completed"
<1>1. CASE UNCHANGED grants
  BY <1>1
<1>2. ASSUME NEW h \in Requests, Approve(h), ~UNCHANGED grants
      PROVE  \/ grants'[p] = grants[p]
             \/ /\ grants'[p] = grants[p] + 1
                /\ purchase[p].status \in Eligible /\ purchase'[p].status = "completed"
  <2> DEFINE q == request[h].purchase
  <2>1. q \in Purchases
    BY <1>2, InFlight DEF Approve, PurchaseSteps
  <2>2. /\ Transitions(q) /\ grants' = [grants EXCEPT ![q] = @ + 1]
        /\ \E id : Write(q, "completed", id)
    BY <1>2 DEF Approve
  <2> QED
    BY <2>1, <2>2 DEF Transitions, Write, TypeOK
<1>3. ASSUME NEW h \in Requests, ReverseCredits(h)
      PROVE  UNCHANGED grants
  BY <1>3 DEF ReverseCredits
<1> QED
  BY <1>1, <1>2, <1>3, OtherWrites

\* A purchase credited once, and settled then.
CreditedUnlessOverwritten ==
  \A p \in Purchases \ overwritten :
    grants[p] <= 1 /\ (grants[p] > 0 => purchase[p].status \in Settled)

LEMMA CreditedStep ==
  ASSUME TypeOK, RefundInv, FailsOpen, CreditedUnlessOverwritten, [Next]_vars
  PROVE  CreditedUnlessOverwritten'
<1>1. CASE UNCHANGED vars
  BY <1>1 DEF vars, CreditedUnlessOverwritten
<1>2. CASE Next
  <2>1. SUFFICES ASSUME NEW p \in Purchases, p \notin overwritten'
                 PROVE  grants'[p] <= 1 /\ (grants'[p] > 0 => purchase'[p].status \in Settled)
    BY DEF CreditedUnlessOverwritten
  <2>2. p \notin overwritten
    BY <1>2, <2>1, OverwritesGrow
  <2>3. /\ grants[p] <= 1 /\ grants[p] \in Nat
        /\ grants[p] > 0 => purchase[p].status \in Settled
    BY <2>2 DEF CreditedUnlessOverwritten, TypeOK
  <2>4. purchase[p].status \in Settled =>
          purchase'[p].status \notin Eligible /\ purchase'[p].status # "absent"
    BY <1>2, <2>1, RowsMoveOn, RowsStayThere DEF RowMovesOn, Statuses, Eligible, Settled
  <2>5. purchase'[p].status \in Statuses
    BY TypeStep, RowFields DEF TypeOK
  <2> QED
    BY <1>2, <2>3, <2>4, <2>5, GrantsMove DEF Statuses, Eligible, Settled
<1> QED
  BY <1>1, <1>2

LEMMA CreditedHolds == Spec => []CreditedUnlessOverwritten
<1>1. Init => CreditedUnlessOverwritten
  BY DEF Init, CreditedUnlessOverwritten
<1>2. TypeOK /\ RefundInv /\ FailsOpen /\ CreditedUnlessOverwritten /\ [Next]_vars
        => CreditedUnlessOverwritten'
  BY CreditedStep
<1> QED
  BY <1>1, <1>2, TypeCorrect, RefundInvHolds, FailsOpenHolds, PTL DEF Spec

(* Where no status was written over unseen, the ledger is kept in both     *)
(* modes of checkout by the webhook, the answer of the Brick and           *)
(* reconciliation, however they overlap: what doubles a credit of the      *)
(* Brick is that write alone.                                              *)
THEOREM RequestsKeepTheLedger == Spec /\ [](overwritten = {}) => LedgerSpec
<1>1. Init => Ledger!Init
  BY DEF Init, Ledger!Init
<1>2. overwritten = {} /\ CreditedUnlessOverwritten => CreditedOnce
  BY DEF CreditedUnlessOverwritten, CreditedOnce, Settled
<1>3. TypeOK /\ CreditedOnce /\ RefundInv /\ [Next]_vars => [Ledger!Next]_Ledger!vars
  BY StepOfLedger
<1> QED
  BY <1>1, <1>2, <1>3, TypeCorrect, CreditedHolds, RefundInvHolds, PTL
  DEF Spec, LedgerSpec, Ledger!Spec

(* With Checkout Pro alone a purchase is credited once at most, also where *)
(* its notifications race and statuses are written over.                   *)
THEOREM ProCreditsOnce == ASSUME ProOnly PROVE Spec => []GrantedAtMostOnce
<1>1. ProInv => GrantedAtMostOnce
  BY DEF ProInv, CreditedOnce, GrantedAtMostOnce
<1> QED
  BY <1>1, ProInvHolds, PTL

(* With the Brick as well, and with any number of overlapping requests, it *)
(* takes a write by id over a status its request had not read to credit a  *)
(* purchase twice.                                                         *)
THEOREM CreditedAtMostOnce == Spec => [](\A p \in Purchases \ overwritten : grants[p] <= 1)
<1>1. CreditedUnlessOverwritten => \A p \in Purchases \ overwritten : grants[p] <= 1
  BY DEF CreditedUnlessOverwritten
<1> QED
  BY <1>1, CreditedHolds, PTL

----------------------------------------------------------------------------
(* OverdraftBounded.  A request that found credits in a balance may take   *)
(* some from it later, whatever happened to the balance since; one that    *)
(* found none takes none.  The debt of a user is what the requests that    *)
(* are done can have taken, so the requests still to take count against    *)
(* the bound.                                                              *)

\* The request may still take credits from the balance of u.
Holds(u, r) ==
  \/ r.step \in {"redeem", "claim"} /\ Owner[r.adaptation] = u
  \/ r.step = "reverse" /\ r.funds > 0 /\ Owner[r.purchase] = u
Takers(u) == {h \in Requests : Holds(u, request[h])}
Within(n, taken) == n >= MostCredits * (taken - Cardinality(Requests))
DebtInv == \A u \in Users : Within(balance[u], Cardinality(Takers(u)))

\* A refund takes no more than an offer grants, nor more than it read.
LEMMA ReversibleBounds ==
  ASSUME NEW r \in PurchaseRequest
  PROVE  /\ Credits[r.seen.offer] \in Nat /\ r.funds \in Int /\ Reversible(r) \in Int
         /\ Reversible(r) <= Credits[r.seen.offer] /\ Reversible(r) <= r.funds
         /\ Reversible(r) <= MostCredits
<1>1. /\ Credits[r.seen.offer] \in Nat /\ r.funds \in Int
      /\ Credits[r.seen.offer] <= MostCredits /\ MostCredits \in Nat
  BY RequestFields, RowFields, PurchasesAssumption
<1> QED
  BY <1>1 DEF Reversible

\* The bound, as takers come to an end.
LEMMA Bounds ==
  ASSUME NEW m \in Nat, NEW r \in Nat, NEW a \in Nat, NEW b \in Nat, a <= r, b <= a
  PROVE  /\ m * (a - r) <= 0
         /\ m * (b - r) <= m * (a - r)
         /\ b <= a - 1 => m * (b - r) <= m * (a - r) - m
<1>1. m * (r - a) >= 0 /\ m * (a - b) >= 0
  <2>1. r - a \in Nat /\ a - b \in Nat
    OBVIOUS
  <2>2. \A n \in Nat : m * n >= 0
    BY SMT
  <2> QED
    BY <2>1, <2>2
<1>2. m * (a - r) = -(m * (r - a)) /\ m * (b - r) = m * (a - r) - m * (a - b)
  BY SMT
<1>3. b <= a - 1 => m * (a - b) >= m
  <2>1. ASSUME b <= a - 1
        PROVE  a - b - 1 \in Nat /\ m * (a - b) = m * (a - b - 1) + m
    BY <2>1, SMT
  <2>2. \A n \in Nat : m * n >= 0
    BY SMT
  <2> QED
    BY <2>1, <2>2
<1> QED
  BY <1>1, <1>2, <1>3

\* What a step does to the balance of a user and to its takers.
Solvent(u) == balance'[u] >= 0
NoMoreTakers(u) == balance'[u] >= balance[u] /\ Takers(u)' \subseteq Takers(u)
OneTook(u) ==
  \E h \in Takers(u) :
    balance'[u] >= balance[u] - MostCredits /\ Takers(u)' \subseteq Takers(u) \ {h}

LEMMA TakersKept ==
  ASSUME NEW h \in Requests, OnlySlot(h), NEW u \in Users, ~Holds(u, request'[h])
  PROVE  Takers(u)' \subseteq Takers(u) \ {h}
  BY DEF OnlySlot, Takers, Holds

LEMMA BalanceMoves ==
  ASSUME TypeOK, Next, NEW u \in Users
  PROVE  Solvent(u) \/ NoMoreTakers(u) \/ OneTook(u)
<1>0. balance[u] \in Int /\ MostCredits \in Nat /\ MostCredits >= 1
  BY PurchasesAssumption DEF TypeOK
<1>1. ASSUME NEW h \in Requests, CreditsMove(h)
      PROVE  Takers(u)' \subseteq Takers(u) \ {h}
  <2>1. request'[h] = Idle /\ OnlySlot(h)
    BY <1>1, Finishes DEF CreditsMove, Approve, ReverseCredits, SpendCredit
  <2> QED
    BY <2>1, TakersKept DEF Holds, Idle
<1>2. ASSUME NEW h \in Requests, Approve(h)
      PROVE  NoMoreTakers(u)
  <2> DEFINE c == Credits[request[h].seen.offer]
             v == Owner[request[h].purchase]
  <2>1. c \in Nat
    BY <1>2, InFlight, ReversibleBounds DEF Approve, PurchaseSteps
  <2>2. \/ UNCHANGED balance
        \/ c > 0 /\ balance' = [balance EXCEPT ![v] = @ + c - 1]
        \/ balance' = [balance EXCEPT ![v] = @ + c]
    BY <1>2 DEF Approve, AutoUnlocks, db
  <2> HIDE DEF c, v
  <2>3. balance'[u] >= balance[u]
    BY <1>0, <2>1, <2>2 DEF TypeOK
  <2> QED
    BY <1>1, <1>2, <2>3 DEF NoMoreTakers, CreditsMove
<1>3. ASSUME NEW h \in Requests, ReverseCredits(h)
      PROVE  NoMoreTakers(u) \/ OneTook(u)
  <2> DEFINE n == Reversible(request[h])
             v == Owner[request[h].purchase]
  <2>1. request[h] \in PurchaseRequest
    BY <1>3, InFlight DEF ReverseCredits, PurchaseSteps
  <2>2. n \in Int /\ n <= MostCredits /\ n <= request[h].funds /\ request[h].funds \in Int
    BY <2>1, ReversibleBounds
  <2>3. balance' = [balance EXCEPT ![v] = @ - n]
    BY <1>3 DEF ReverseCredits
  <2> HIDE DEF n
  <2>4. u # v \/ request[h].funds <= 0 => balance'[u] >= balance[u]
    BY <1>0, <2>2, <2>3 DEF TypeOK
  <2>5. u = v => balance'[u] >= balance[u] - MostCredits
    BY <1>0, <2>2, <2>3 DEF TypeOK
  <2>6. u = v /\ request[h].funds > 0 => h \in Takers(u)
    BY <1>3 DEF ReverseCredits, At, Takers, Holds
  <2> QED
    BY <1>1, <1>3, <2>2, <2>4, <2>5, <2>6 DEF NoMoreTakers, OneTook, CreditsMove
<1>4. ASSUME NEW h \in Requests, SpendCredit(h)
      PROVE  NoMoreTakers(u) \/ OneTook(u)
  <2> DEFINE v == Owner[request[h].adaptation]
  <2>1. UNCHANGED balance \/ balance' = [balance EXCEPT ![v] = @ - 1]
    BY <1>4 DEF SpendCredit
  <2>2. u # v => balance'[u] >= balance[u]
    BY <1>0, <2>1 DEF TypeOK
  <2>3. u = v => balance'[u] >= balance[u] - MostCredits /\ h \in Takers(u)
    BY <1>0, <1>4, <2>1 DEF TypeOK, SpendCredit, Takers, Holds
  <2> QED
    BY <1>1, <1>4, <2>2, <2>3 DEF NoMoreTakers, OneTook, CreditsMove
<1>5. ASSUME NEW v \in Users, NEW n \in AdminCredits, SetCredits(v, n)
      PROVE  Solvent(u) \/ NoMoreTakers(u)
  <2>1. n \in Nat
    BY PurchasesAssumption
  <2>2. balance' = [balance EXCEPT ![v] = n] /\ request' = request
    BY <1>5 DEF SetCredits
  <2> QED
    BY <1>0, <2>1, <2>2 DEF Solvent, NoMoreTakers, Takers, Holds, TypeOK
<1>6. ASSUME UNCHANGED balance
      PROVE  Solvent(u) \/ NoMoreTakers(u)
  <2>1. CASE UNCHANGED request
    BY <1>0, <1>6, <2>1 DEF NoMoreTakers, Takers, Holds
  <2>2. ASSUME NEW h \in Requests, Moves(h), OnlySlot(h)
        PROVE  Solvent(u) \/ NoMoreTakers(u)
    <3>1. CASE StartsUnlock(h) /\ Holds(u, request'[h])
      BY <1>0, <1>6, <3>1 DEF StartsUnlock, Holds, Solvent
    <3>2. CASE LocksRefund(h) /\ Holds(u, request'[h])
      BY <1>0, <1>6, <3>2 DEF LocksRefund, GoesTo, Holds, Solvent
    <3>3. CASE ~Holds(u, request'[h])
      BY <1>0, <1>6, <2>2, <3>3, TakersKept DEF NoMoreTakers
    <3>4. CASE ~StartsUnlock(h) /\ ~LocksRefund(h)
      <4>1. request'[h].step \notin {"redeem", "claim", "reverse"}
        BY <2>2, <3>4 DEF Moves, Ends, Idle, StartsBrick, StartsReconcile, StartsWebhook, LooksUp,
           IsAnswered, GoesTo
      <4> QED
        BY <3>3, <4>1 DEF Holds
    <3> QED
      BY <3>1, <3>2, <3>3, <3>4
  <2> QED
    BY <2>1, <2>2, Moved
<1> QED
  BY <1>2, <1>3, <1>4, <1>5, <1>6, CreditWriters DEF CreditsMove, credits

LEMMA TakersFinite ==
  ASSUME NEW u
  PROVE  /\ IsFiniteSet(Takers(u)) /\ Cardinality(Takers(u)) \in Nat
         /\ Cardinality(Requests) \in Nat /\ Cardinality(Takers(u)) <= Cardinality(Requests)
<1>1. IsFiniteSet(Requests) /\ Takers(u) \subseteq Requests
  BY PurchasesAssumption DEF Takers
<1> QED
  BY <1>1, FS_Subset, FS_CardinalityType

LEMMA DebtStep == TypeOK /\ TypeOK' /\ DebtInv /\ [Next]_vars => DebtInv'
<1> SUFFICES ASSUME TypeOK, TypeOK', DebtInv, Next
             PROVE  DebtInv'
  BY DEF DebtInv, Within, Takers, Holds, vars
<1> SUFFICES ASSUME NEW u \in Users
             PROVE  Within(balance'[u], Cardinality(Takers(u)'))
  BY DEF DebtInv, Within
<1> DEFINE a == Cardinality(Takers(u))
           b == Cardinality(Takers(u)')
           r == Cardinality(Requests)
<1>1. IsFiniteSet(Takers(u)) /\ a \in Nat /\ r \in Nat /\ a <= r
  BY TakersFinite
<1>2. Takers(u)' \subseteq Requests /\ IsFiniteSet(Requests)
  BY PurchasesAssumption DEF Takers
<1>3. IsFiniteSet(Takers(u)') /\ b \in Nat /\ b <= r
  BY <1>2, FS_Subset, FS_CardinalityType
<1>4. /\ balance[u] \in Int /\ balance'[u] \in Int /\ MostCredits \in Nat
      /\ balance[u] >= MostCredits * (a - r)
  BY PurchasesAssumption DEF TypeOK, DebtInv, Within
<1>5. CASE Solvent(u)
  <2>1. MostCredits * (b - r) <= 0
    BY <1>3, <1>1, <1>4, Bounds
  <2>2. MostCredits * (b - r) \in Int
    BY <1>3, <1>1, <1>4
  <2> QED
    BY <1>4, <1>5, <2>1, <2>2 DEF Solvent, Within
<1>6. CASE NoMoreTakers(u)
  <2>1. b <= a
    BY <1>1, <1>6, FS_Subset DEF NoMoreTakers
  <2>2. MostCredits * (b - r) <= MostCredits * (a - r)
    BY <1>3, <1>1, <1>4, <2>1, Bounds
  <2>3. MostCredits * (b - r) \in Int /\ MostCredits * (a - r) \in Int
    BY <1>3, <1>1, <1>4
  <2> QED
    BY <1>4, <1>6, <2>2, <2>3 DEF NoMoreTakers, Within
<1>7. ASSUME NEW h \in Takers(u), balance'[u] >= balance[u] - MostCredits,
             Takers(u)' \subseteq Takers(u) \ {h}
      PROVE  Within(balance'[u], b)
  <2>1. Cardinality(Takers(u) \ {h}) = a - 1 /\ IsFiniteSet(Takers(u) \ {h})
    BY <1>1, FS_RemoveElement
  <2>2. b <= a - 1
    BY <1>7, <2>1, FS_Subset
  <2>3. MostCredits * (b - r) <= MostCredits * (a - r) - MostCredits
    BY <1>3, <1>1, <1>4, <2>2, Bounds
  <2>4. MostCredits * (b - r) \in Int /\ MostCredits * (a - r) \in Int
    BY <1>3, <1>1, <1>4
  <2> QED
    BY <1>4, <1>7, <2>3, <2>4 DEF Within
<1> QED
  BY <1>5, <1>6, <1>7, BalanceMoves DEF OneTook

(* However many requests and administrators write a balance between the    *)
(* moment it is tested and the moment it is spent, and whichever of them   *)
(* die, it falls no further below zero than the requests at work at one    *)
(* time can take: a spent balance buys nothing, and a refund takes         *)
(* nothing from it.                                                        *)
THEOREM OverdraftIsBounded == Spec => []OverdraftBounded
<1>1. Init => DebtInv
  <2> SUFFICES ASSUME Init, NEW u \in Users
               PROVE  Within(balance[u], Cardinality(Takers(u)))
    BY DEF DebtInv
  <2>1. balance[u] \in Nat /\ MostCredits \in Nat
    BY PurchasesAssumption DEF Init
  <2>2. MostCredits * (Cardinality(Takers(u)) - Cardinality(Requests)) <= 0
    BY <2>1, TakersFinite, Bounds
  <2>3. MostCredits * (Cardinality(Takers(u)) - Cardinality(Requests)) \in Int
    BY <2>1, TakersFinite
  <2> QED
    BY <2>1, <2>2, <2>3 DEF Within
<1>2. TypeOK /\ DebtInv => OverdraftBounded
  <2> SUFFICES ASSUME TypeOK, DebtInv, NEW u \in Users
               PROVE  balance[u] >= -(MostCredits * Cardinality(Requests))
    BY DEF OverdraftBounded
  <2> DEFINE a == Cardinality(Takers(u))
             r == Cardinality(Requests)
  <2>1. /\ a \in Nat /\ r \in Nat /\ a <= r /\ MostCredits \in Nat /\ balance[u] \in Int
        /\ balance[u] >= MostCredits * (a - r)
    BY TakersFinite, PurchasesAssumption DEF DebtInv, Within, TypeOK
  <2> HIDE DEF a, r
  <2>2. MostCredits * (0 - r) <= MostCredits * (a - r)
    BY <2>1, Bounds
  <2>3. MostCredits * (0 - r) = -(MostCredits * r)
    BY <2>1
  <2> QED
    BY <2>1, <2>2, <2>3 DEF r
<1> QED
  BY <1>1, <1>2, DebtStep, TypeCorrect, PTL DEF Spec

----------------------------------------------------------------------------
(* RefundsAreReversed.  A purchase that is credited, or about to be, has an *)
(* approved payment, or one whose refund is still on its way (notified, or *)
(* in the hands of the webhook), or was failed or refunded before it could *)
(* be credited.                                                            *)

\* Mercado Pago still stands by the purchase, or is about to say it does not.
Backed(pay, told, p) ==
  \E q \in Payments : /\ pay[q].purchase = p
                      /\ \/ pay[q].status = "approved"
                         \/ pay[q].status = "refunded" /\ q \in told

RefundOnItsWay(p) == \E h \in Requests : Refunding(request[h]) /\ request[h].purchase = p

GrantsBalance ==
  \A p \in Purchases \ overwritten :
    grants[p] - reversals[p] = IF purchase[p].status = "completed" THEN 1 ELSE 0

\* A refund that found its purchase completed finds it settled still.
LockSettled ==
  \A h \in Requests :
    At(h, "lock_refund") /\ request[h].purchase \notin overwritten =>
      purchase[request[h].purchase].status \in Settled

HoldsRefund(pay, r) ==
  /\ r.payment \in Payments /\ pay[r.payment].status = "refunded"
  /\ pay[r.payment].purchase = r.purchase
RefundsAreReal == \A h \in Requests : Refunding(request[h]) => HoldsRefund(payment, request[h])

\* What was, or is about to be, credited, and what stands for it.
Relied(p) ==
  \/ purchase[p].status = "completed"
  \/ \E h \in Requests : NeedsPaid(request[h]) /\ request[h].purchase = p
Owed(p) ==
  \/ Backed(payment, notify, p) \/ RefundOnItsWay(p)
  \/ purchase[p].status \in {"failed", "refunded"}
ReliedIsOwed == \A p \in Purchases \ overwritten : Relied(p) => Owed(p)

FateInv ==
  /\ GrantsBalance /\ LockSettled /\ RefundsAreReal
  /\ lost = 0 => ReliedIsOwed

\* A payment is created, approved and refunded, in that order, and each
\* change is notified.
PaymentMove(q) ==
  \/ payment'[q] = payment[q]
  \/ payment[q].status = "absent"
  \/ /\ payment'[q].purchase = payment[q].purchase /\ q \in notify'
     /\ payment[q].status # "refunded"
     /\ payment[q].status = "approved" => payment'[q].status = "refunded"

LEMMA PaymentsMove ==
  ASSUME TypeOK, Next
  PROVE  \A q \in Payments : PaymentMove(q)
<1> DEFINE Goal == \A q \in Payments : PaymentMove(q)
<1>1. CASE UNCHANGED payment
  BY <1>1 DEF PaymentMove
<1>2. ASSUME NEW q \in Payments, NEW new, payment[q] = NoPaymentYet,
             payment' = [payment EXCEPT ![q] = new]
      PROVE  Goal
  BY <1>2 DEF PaymentMove, NoPaymentYet, TypeOK
<1>3. ASSUME NEW q \in Payments, NEW s \in PaymentStatuses, PaymentChanges(q, s)
      PROVE  Goal
  <2>1. payment[q] \in PaymentAtProvider
    BY <1>3 DEF PaymentChanges, TypeOK, PaymentStates, NoPaymentYet
  <2>2. /\ payment'[q].purchase = payment[q].purchase /\ q \in notify'
        /\ payment[q].status = "approved" => payment'[q].status = "refunded"
        /\ payment[q].status # "refunded"
        /\ \A k \in Payments \ {q} : payment'[k] = payment[k]
    BY <1>3, <2>1 DEF PaymentChanges, PaymentAtProvider, TypeOK
  <2> QED
    BY <2>2 DEF PaymentMove
<1> QED
  BY <1>1, <1>2, <1>3, PaymentWriters DEF ProviderCreates, PayPreference

\* Notifications leave the queue to be handled, or are lost.
LEMMA NotifyWriters ==
  ASSUME Next
  PROVE  \/ \E q \in Payments : LoseWebhook(q)
         \/ \E h \in Requests, q \in Payments : ReceiveWebhook(h, q)
         \/ notify \subseteq notify' /\ UNCHANGED lost
<1> DEFINE Goal == notify \subseteq notify' /\ UNCHANGED lost
<1>1. ASSUME NEW h \in Requests, Handle(h)
      PROVE  Goal
  <2>1. \/ PublishBrick(h) \/ ReadEligible(h) \/ Approve(h) \/ LookUpPurchase(h) \/ MarkFailed(h)
        \/ LockForRefund(h) \/ ReverseCredits(h) \/ SpendCredit(h)
        => Goal
    BY DEF PublishBrick, ReadEligible, Approve, LookUpPurchase, MarkFailed, LockForRefund,
       ReverseCredits, SpendCredit, mp, faults
  <2>2. \/ LockSubmission(h) \/ AbortSubmission(h) \/ ProviderUnreachable(h) \/ AnswerBrick(h)
        \/ \E q \in Payments, s \in PaymentStatuses \ {"refunded"} : ProviderCreates(h, q, s)
        => Goal
    BY DEF LockSubmission, AbortSubmission, ProviderUnreachable, ProviderCreates, AnswerBrick,
       mp, faults
  <2> QED
    BY <1>1, <2>1, <2>2 DEF Handle
<1>2. ASSUME NEW h \in Requests, Start(h) \/ Crash(h)
      PROVE  Goal \/ \E q \in Payments : ReceiveWebhook(h, q)
  BY <1>2 DEF Start, CreateCheckoutBrick, SubmitBrickPayment, ReconcilePending, ReconcileOne,
     StartReconcile, RedeemWithCredit, ClaimGuest, StartUnlock, Crash, mp, faults
<1>3. ASSUME NEW p \in Purchases,
             \/ ReuseCheckout(p) \/ ResumeCheckout(p)
             \/ \E o \in Offers : CreateCheckoutPro(p, o) \/ ApplyCheckoutCoupon(p, o)
      PROVE  Goal
  BY <1>3 DEF ReuseCheckout, ResumeCheckout, CreateCheckoutPro, ApplyCheckoutCoupon, mp, faults
<1>4. ASSUME NEW q \in Payments,
             \/ \E s \in PaymentStatuses : PaymentChanges(q, s)
             \/ \E p \in Purchases, o \in Offers, s \in PaymentStatuses \ {"refunded"} :
                  PayPreference(q, p, o, s)
      PROVE  Goal
  BY <1>4 DEF PaymentChanges, PayPreference, faults
<1>5. ASSUME NEW u \in Users, NEW n \in AdminCredits, SetCredits(u, n)
      PROVE  Goal
  BY <1>5 DEF SetCredits, mp, faults
<1> QED
  BY <1>1, <1>2, <1>3, <1>4, <1>5 DEF Next

\* While no notification is lost, what backs a purchase is only given up to
\* a webhook that starts to take its credits back.
LEMMA BackedStays ==
  ASSUME TypeOK, Next, lost' = 0, NEW p \in Purchases, Backed(payment, notify, p)
  PROVE  \/ Backed(payment', notify', p)
         \/ \E h \in Requests : IsIdle(h) /\ Refunding(request'[h]) /\ request'[h].purchase = p
<1>1. PICK q \in Payments : /\ payment[q].purchase = p
                            /\ \/ payment[q].status = "approved"
                               \/ payment[q].status = "refunded" /\ q \in notify
  BY DEF Backed
<1>2. PaymentMove(q)
  BY PaymentsMove
<1>3. CASE payment[q].status = "approved"
  <2>1. payment'[q].purchase = p
    BY <1>1, <1>2, <1>3 DEF PaymentMove
  <2>2. \/ payment'[q].status = "approved"
        \/ payment'[q].status = "refunded" /\ q \in notify'
    BY <1>2, <1>3 DEF PaymentMove
  <2> QED
    BY <2>1, <2>2 DEF Backed
<1>4. CASE payment[q].status = "refunded" /\ q \in notify /\ q \in notify'
  <2>1. payment'[q] = payment[q]
    BY <1>2, <1>4 DEF PaymentMove
  <2> QED
    BY <1>1, <1>4, <2>1 DEF Backed
<1>5. CASE payment[q].status = "refunded" /\ q \in notify /\ q \notin notify'
  <2>1. ASSUME NEW k \in Payments, LoseWebhook(k)
        PROVE  FALSE
    BY <2>1 DEF LoseWebhook, TypeOK
  <2>2. PICK h \in Requests, k \in Payments : ReceiveWebhook(h, k)
    BY <1>5, <2>1, NotifyWriters
  <2>3. k = q /\ IsIdle(h)
    BY <1>5, <2>2 DEF ReceiveWebhook
  <2>4. /\ request'[h].step = "look_up" /\ request'[h].job = "webhook"
        /\ request'[h].purchase = payment[q].purchase /\ request'[h].answer = payment[q].status
    BY <2>2, <2>3, Starts DEF ReceiveWebhook
  <2> QED
    BY <1>1, <1>5, <2>3, <2>4 DEF Refunding
<1> QED
  BY <1>1, <1>3, <1>4, <1>5

\* A purchase is completed, and left, by the two transactions alone, and one
\* that failed or was refunded stays so.
LEMMA CompletedMoves ==
  ASSUME TypeOK, RefundInv, FailsOpen, Next, NEW p \in Purchases, p \notin overwritten'
  PROVE  /\ \/ purchase'[p].status = "completed" <=> purchase[p].status = "completed"
            \/ \E h \in Requests : /\ request[h].purchase = p
                                   /\ ReverseCredits(h) \/ (Approve(h) /\ Transitions(p))
         /\ purchase[p].status \in {"failed", "refunded"} =>
              purchase'[p].status \in {"failed", "refunded"}
<1>1. purchase'[p].status \in Statuses /\ purchase[p].status \in Statuses
  BY TypeStep, RowFields DEF TypeOK
<1>2. RowMovesOn(p)
  BY RowsMoveOn
<1>3. purchase[p].status # "absent" => purchase'[p].status # "absent"
  BY RowsStayThere
<1>4. CASE \A h \in Requests : ~RowWriter(h)
  BY <1>4, CustomerRows DEF CustomerRow
<1>5. ASSUME NEW h \in Requests, RowWriter(h)
      PROVE  \/ purchase'[p].status = "completed" <=> purchase[p].status = "completed"
             \/ /\ request[h].purchase = p
                /\ ReverseCredits(h) \/ (Approve(h) /\ Transitions(p))
  BY <1>5, WrittenRows
<1>6. purchase[p].status \in {"failed", "refunded"} => purchase'[p].status # "completed"
  <2>1. ASSUME NEW h \in Requests, RowWriter(h), purchase[p].status \in {"failed", "refunded"}
        PROVE  purchase'[p].status # "completed"
    BY <2>1, WrittenRows DEF Transitions, Eligible
  <2> QED
    BY <1>4, <2>1, CustomerRows DEF CustomerRow
<1> QED
  BY <1>1, <1>2, <1>3, <1>4, <1>5, <1>6 DEF RowMovesOn, Statuses, Eligible

LEMMA GrantsBalanceStep ==
  ASSUME TypeOK, RefundInv, FailsOpen, GrantsBalance, Next
  PROVE  GrantsBalance'
<1> SUFFICES ASSUME NEW p \in Purchases, p \notin overwritten'
             PROVE  grants'[p] - reversals'[p] = IF purchase'[p].status = "completed" THEN 1 ELSE 0
  BY DEF GrantsBalance
<1>0. grants[p] - reversals[p] = IF purchase[p].status = "completed" THEN 1 ELSE 0
  BY OverwritesGrow DEF GrantsBalance
<1>1. CASE \A h \in Requests : ~Approve(h) /\ ~ReverseCredits(h)
  <2>1. UNCHANGED <<grants, reversals>>
    BY <1>1, OtherWrites
  <2>2. purchase'[p].status = "completed" <=> purchase[p].status = "completed"
    BY <1>1, CompletedMoves
  <2> QED
    BY <1>0, <2>1, <2>2
<1>2. ASSUME NEW h \in Requests, Approve(h)
      PROVE  grants'[p] - reversals'[p] = IF purchase'[p].status = "completed" THEN 1 ELSE 0
  <2> DEFINE q == request[h].purchase
  <2>1. CASE ~Transitions(q)
    BY <1>0, <1>2, <2>1 DEF Approve, db
  <2>2. CASE Transitions(q)
    <3>1. q \in Purchases /\ purchase[q].status # "completed"
      BY <1>2, <2>2, InFlight DEF Approve, PurchaseSteps, Transitions, Eligible
    <3>2. grants' = [grants EXCEPT ![q] = @ + 1] /\ UNCHANGED reversals
      BY <1>2, <2>2 DEF Approve
    <3>3. PICK id : Write(q, "completed", id)
      BY <1>2, <2>2 DEF Approve
    <3>4. /\ purchase'[q].status = "completed"
          /\ p # q => purchase'[p] = purchase[p]
      BY <3>1, <3>3 DEF Write, TypeOK
    <3> QED
      BY <1>0, <3>1, <3>2, <3>4 DEF TypeOK
  <2> QED
    BY <2>1, <2>2
<1>3. ASSUME NEW h \in Requests, ReverseCredits(h)
      PROVE  grants'[p] - reversals'[p] = IF purchase'[p].status = "completed" THEN 1 ELSE 0
  <2> DEFINE q == request[h].purchase
  <2>1. q \in Purchases /\ purchase[q].status = "completed"
    BY <1>3, InFlight DEF ReverseCredits, PurchaseSteps, RefundInv, RefundHoldsRow
  <2>2. reversals' = [reversals EXCEPT ![q] = @ + 1] /\ UNCHANGED grants
    BY <1>3 DEF ReverseCredits
  <2>3. /\ purchase'[q].status = "refunded"
        /\ p # q => purchase'[p] = purchase[p]
    BY <1>3, <2>1, SetStatusRow DEF ReverseCredits, Statuses
  <2> QED
    BY <1>0, <2>1, <2>2, <2>3 DEF TypeOK
<1> QED
  BY <1>1, <1>2, <1>3

LEMMA LockSettledStep ==
  ASSUME TypeOK, RefundInv, FailsOpen, LockSettled, Next
  PROVE  LockSettled'
<1>1. ASSUME NEW h \in Requests, At(h, "lock_refund"), request[h].purchase \notin overwritten'
      PROVE  purchase'[request[h].purchase].status \in Settled
  <2> DEFINE p == request[h].purchase
  <2>1. p \in Purchases
    BY <1>1, InFlight DEF PurchaseSteps
  <2>2. purchase[p].status \in Settled
    BY <1>1, OverwritesGrow DEF LockSettled
  <2>3. purchase'[p].status \in Statuses
    BY <2>1, TypeStep, RowFields DEF TypeOK
  <2>4. purchase'[p].status \notin Eligible /\ purchase'[p].status # "absent"
    BY <1>1, <2>1, <2>2, RowsMoveOn, RowsStayThere DEF RowMovesOn, Statuses, Eligible, Settled
  <2> QED
    BY <2>3, <2>4 DEF Statuses, Eligible, Settled
<1>2. CASE UNCHANGED request
  BY <1>1, <1>2 DEF LockSettled, At
<1>3. ASSUME NEW h \in Requests, Moves(h), OnlySlot(h)
      PROVE  LockSettled'
  <2>1. request'[h].step = "lock_refund" => LooksUp(h)
    BY <1>3 DEF Moves, Ends, Idle, StartsBrick, StartsReconcile, StartsWebhook, StartsUnlock,
       LocksRefund, IsAnswered, GoesTo
  <2>2. request'[h].step = "lock_refund" => purchase'[request'[h].purchase].status \in Settled
    BY <2>1 DEF LooksUp, GoesTo, RowOf, db, Settled
  <2> QED
    BY <1>1, <1>3, <2>2 DEF LockSettled, OnlySlot, At
<1> QED
  BY <1>2, <1>3, Moved

\* A refund that is being handled keeps its payment.
LEMMA RefundsAreRealStep ==
  ASSUME TypeOK, RefundsAreReal, Next
  PROVE  RefundsAreReal'
<1>1. \A r : HoldsRefund(payment, r) => HoldsRefund(payment', r)
  <2> SUFFICES ASSUME NEW q \in Payments, payment[q].status = "refunded"
               PROVE  payment'[q] = payment[q]
    BY DEF HoldsRefund
  <2> QED
    BY PaymentsMove DEF PaymentMove
<1>2. CASE UNCHANGED request
  BY <1>1, <1>2 DEF RefundsAreReal, HoldsRefund
<1>3. ASSUME NEW h \in Requests, Moves(h), Refunding(request'[h])
      PROVE  HoldsRefund(payment', request'[h])
  <2>1. CASE StartsWebhook(h)
    BY <1>3, <2>1 DEF StartsWebhook, Refunding, HoldsRefund
  <2>2. CASE LooksUp(h) \/ LocksRefund(h)
    <3>1. /\ request'[h].payment = request[h].payment /\ request'[h].purchase = request[h].purchase
          /\ Refunding(request[h])
      BY <1>3, <2>2 DEF LooksUp, LocksRefund, GoesTo, Refunding, At
    <3> QED
      BY <3>1, <1>1 DEF RefundsAreReal, HoldsRefund
  <2>3. ~\/ Ends(h) \/ StartsBrick(h) \/ StartsReconcile(h) \/ StartsUnlock(h) \/ GoesTo(h, "approve")
         \/ GoesTo(h, "call_provider") \/ (GoesTo(h, "read_eligible") /\ ~LooksUp(h)) \/ IsAnswered(h)
    BY <1>3 DEF Refunding, Ends, Idle, StartsBrick, StartsReconcile, StartsUnlock, GoesTo, IsAnswered
  <2> QED
    BY <1>3, <2>1, <2>2, <2>3 DEF Moves
<1>4. ASSUME NEW h \in Requests, Moves(h), OnlySlot(h)
      PROVE  RefundsAreReal'
  BY <1>1, <1>3, <1>4 DEF OnlySlot, RefundsAreReal
<1> QED
  BY <1>2, <1>4, Moved

\* What stands for a purchase is given up only for something that does, too.
LEMMA OwedStays ==
  ASSUME TypeOK, RefundInv, FailsOpen, LockSettled, RefundsAreReal, Next, lost' = 0,
         NEW p \in Purchases, p \notin overwritten', Owed(p)
  PROVE  Owed(p)'
<1>1. CASE Backed(payment, notify, p)
  BY <1>1, BackedStays DEF Owed, RefundOnItsWay
<1>2. CASE purchase[p].status \in {"failed", "refunded"}
  BY <1>2, CompletedMoves DEF Owed
<1>3. ASSUME NEW h \in Requests, Refunding(request[h]), request[h].purchase = p
      PROVE  Owed(p)'
  <2>1. CASE request'[h] = request[h]
    BY <1>3, <2>1 DEF Owed, RefundOnItsWay
  <2>2. CASE Ends(h)
    <3>1. HoldsRefund(payment, request[h])
      BY <1>3 DEF RefundsAreReal
    <3>2. request[h].payment \in notify' => Backed(payment', notify', p)
      <4>1. payment'[request[h].payment] = payment[request[h].payment]
        BY <3>1, PaymentsMove DEF HoldsRefund, PaymentMove
      <4> QED
        BY <1>3, <3>1, <4>1 DEF HoldsRefund, Backed
    <3>3. At(h, "lock_refund") /\ RowOf(h).status # "completed" =>
            purchase[p].status \in {"failed", "refunded"}
      BY <1>3, OverwritesGrow DEF LockSettled, RowOf, Settled
    <3> QED
      BY <1>3, <2>2, <3>1, <3>2, <3>3 DEF Ends, HoldsRefund, Owed
  <2>3. CASE LooksUp(h)
    <3>1. GoesTo(h, "lock_refund") \/ GoesTo(h, "write_failed")
      BY <1>3, <2>3 DEF LooksUp, Refunding
    <3> QED
      BY <1>3, <3>1 DEF GoesTo, Refunding, RefundOnItsWay, Owed
  <2>4. CASE LocksRefund(h)
    BY <1>3, <2>4 DEF LocksRefund, GoesTo, Refunding, RefundOnItsWay, Owed
  <2>5. CASE Moves(h)
    BY <1>3, <2>2, <2>3, <2>4, <2>5
    DEF Moves, Refunding, IsIdle, At, LockSubmission, AnswerBrick, IsAnswered
  <2> QED
    BY <2>1, <2>5, Moved DEF OnlySlot
<1> QED
  BY <1>1, <1>2, <1>3 DEF Owed, RefundOnItsWay

LEMMA ReliedIsOwedStep ==
  ASSUME TypeOK, RefundInv, FailsOpen, LockSettled, RefundsAreReal, ReliedIsOwed, Next, lost' = 0
  PROVE  ReliedIsOwed'
<1> SUFFICES ASSUME NEW p \in Purchases, p \notin overwritten', Relied(p)'
             PROVE  Owed(p)'
  BY DEF ReliedIsOwed
<1>1. Relied(p) => Owed(p)'
  BY OverwritesGrow, OwedStays DEF ReliedIsOwed
<1>2. CASE purchase'[p].status = "completed" /\ ~Relied(p)
  <2>1. PICK h \in Requests : request[h].purchase = p /\ (ReverseCredits(h) \/ Approve(h))
    BY <1>2, CompletedMoves DEF Relied
  <2>2. ~ReverseCredits(h)
    BY <1>2, <2>1 DEF ReverseCredits, RefundInv, RefundHoldsRow, Relied
  <2> QED
    BY <1>2, <2>1, <2>2 DEF Approve, At, NeedsPaid, Relied
<1>3. ASSUME NEW h \in Requests, NeedsPaid(request'[h]), request'[h].purchase = p, ~Relied(p)
      PROVE  Owed(p)'
  <2>1. request'[h] # request[h]
    BY <1>3 DEF Relied
  <2>2. Moves(h)
    BY <2>1, Moved DEF OnlySlot
  <2>3. Approved(payment', p)
    BY <1>3, <2>2, NewReliance DEF Relied
  <2> QED
    BY <2>3 DEF Approved, Backed, Owed
<1> QED
  BY <1>1, <1>2, <1>3 DEF Relied

LEMMA FateStep ==
  ASSUME TypeOK, RefundInv, FailsOpen, FateInv, [Next]_vars
  PROVE  FateInv'
<1>1. CASE UNCHANGED vars
  BY <1>1 DEF vars, FateInv, GrantsBalance, LockSettled, RefundsAreReal, ReliedIsOwed, Relied, Owed,
     RefundOnItsWay, At
<1>2. CASE Next
  <2>1. lost' = 0 => lost = 0
    BY <1>2, NotifyWriters DEF LoseWebhook, ReceiveWebhook, faults, TypeOK
  <2>2. GrantsBalance' /\ LockSettled' /\ RefundsAreReal'
    BY <1>2, GrantsBalanceStep, LockSettledStep, RefundsAreRealStep DEF FateInv
  <2> QED
    BY <1>2, <2>1, <2>2, ReliedIsOwedStep DEF FateInv
<1> QED
  BY <1>1, <1>2

\* What the invariant says of a purchase at rest.
LEMMA FateImplies ==
  ASSUME TypeOK, FateInv
  PROVE  RefundsAreReversed
<1> SUFFICES ASSUME lost = 0, NEW p \in Purchases, p \notin overwritten, AtRest(p)
             PROVE  grants[p] = reversals[p]
  BY DEF RefundsAreReversed
<1>1. ~Backed(payment, notify, p)
  BY DEF Backed, AtRest
<1>2. ~RefundOnItsWay(p)
  BY DEF RefundOnItsWay, Refunding, AtRest
<1>3. purchase[p].status # "completed"
  BY <1>1, <1>2 DEF FateInv, ReliedIsOwed, Relied, Owed
<1>4. grants[p] - reversals[p] = 0
  BY <1>3 DEF FateInv, GrantsBalance
<1>5. grants[p] \in Nat /\ reversals[p] \in Nat
  BY DEF TypeOK
<1> QED
  BY <1>4, <1>5

(* In both modes of checkout, where no notification is lost, a purchase    *)
(* whose payments are all refunded or declined has had every grant taken   *)
(* back, however approvals, refunds and redeliveries overlap and the       *)
(* requests die; what can leave a refunded purchase credited is a status   *)
(* written by id over one that the request had not read.                   *)
THEOREM RefundedIsReversed == Spec => []RefundsAreReversed
<1>1. Init => FateInv
  BY DEF Init, FateInv, GrantsBalance, LockSettled, RefundsAreReal, ReliedIsOwed, Relied, NeedsPaid,
     Refunding, Idle, NoRow, At
<1>2. TypeOK /\ RefundInv /\ FailsOpen /\ FateInv /\ [Next]_vars => FateInv'
  BY FateStep
<1>3. TypeOK /\ FateInv => RefundsAreReversed
  BY FateImplies
<1> QED
  BY <1>1, <1>2, <1>3, TypeCorrect, RefundInvHolds, FailsOpenHolds, PTL DEF Spec
=============================================================================
