------------------------ MODULE MonitorDigests_proofs ------------------------
(***************************************************************************)
(* Proof that a digest goes out again only after somebody queued it again, *)
(* and that an opt-out is respected, for any number of jobs, digests,      *)
(* requests and events; that a job is announced twice only by two choices  *)
(* that overlapped (NewsInv); and that the provider never takes a digest   *)
(* more often than its budget of attempts allows (BudgetInv).              *)
(*                                                                         *)
(* Nothing in the code keeps the writers apart but the statuses.  Fresh    *)
(* says why a request has its digest for itself, and Listed and Held that  *)
(* the worker never has one twice.  What keeps the reconciler away from    *)
(* the worker's digests (Apart) is that no digest leaves a final status,   *)
(* which a resend of the administration breaks.                            *)
(***************************************************************************)
EXTENDS MonitorDigests, FiniteSetTheorems, TLAPS

Holding == {"check", "send", "record"}

Rows ==
  /\ digests \in Seq(Digests)
  /\ \A d \in DOMAIN digests :
       digests[d].attempts > MaxAttempts => digests[d].status \in {"FAILED", "SENT"}

\* What Room promises is still there.
Places ==
  /\ scheduler.step = "idle" => Len(digests) + Cardinality(Creating) <= MaxDigests
  /\ scheduler.step # "idle" => Len(digests) + Cardinality(Creating) + 1 <= MaxDigests

Listed ==
  /\ \A t \in todo : /\ t.id \in DOMAIN digests /\ t.attempts <= MaxAttempts
                     /\ digests[t.id].attempts <= MaxAttempts
  /\ \A t, u \in todo : t.id = u.id => t = u
  /\ phase = "idle" => todo = {}

Held ==
  /\ current \in Copies <=> phase \in Holding
  /\ current \in Copies =>
       /\ current.id \in DOMAIN digests /\ current.attempts <= MaxAttempts
       /\ digests[current.id].attempts <= MaxAttempts
       /\ \A t \in todo : t.id # current.id
  /\ phase = "record" => result \in Results

Waits ==
  /\ \A t \in unknowns : t.id \in DOMAIN digests /\ t.attempts < MaxAttempts
  /\ \A t, u \in unknowns : t.id = u.id => t = u

Mine(a, d) ==
  /\ \A t \in todo \cup unknowns : t.id # d
  /\ current \in Copies => current.id # d
  /\ \A h \in Hooks : hook[h].was = "OUTCOME_UNKNOWN" => hook[h].id # d
  /\ \A b \in Admins : b # a /\ admin[b].step \in Holding \cup {"resend"} => admin[b].id # d

Fresh == \A a \in Admins : admin[a].step \in Holding =>
  /\ admin[a].id \in DOMAIN digests
  /\ digests[admin[a].id].status = "PROCESSING" /\ ~digests[admin[a].id].old
  /\ digests[admin[a].id].attempts = 0
  /\ admin[a].step = "record" => admin[a].result \in Results
  /\ Mine(a, admin[a].id)

Known ==
  /\ \A a \in Admins : admin[a].step = "resend" => admin[a].id \in DOMAIN digests
  /\ \A h \in Hooks : hook[h].step = "resolve" \/ hook[h].was = "OUTCOME_UNKNOWN" =>
       hook[h].id \in DOMAIN digests
  /\ left \subseteq DOMAIN digests

TypeInv == TypeOK /\ Rows /\ Places /\ Listed /\ Held /\ Waits /\ Fresh /\ Known

Apart ==
  /\ current \in Copies =>
       /\ digests[current.id].status \in {"PROCESSING", "SENT", "FAILED"}
       /\ ~digests[current.id].old
  /\ \A t \in todo : digests[t.id].status \in {"PENDING", "PROCESSING", "SENT", "FAILED"}
  /\ \A t \in unknowns :
       /\ digests[t.id].status \in {"OUTCOME_UNKNOWN", "SENT", "FAILED"}
       /\ \A u \in todo : u.id # t.id
       /\ current \in Copies => current.id # t.id

\* What is queued, listed or in hand before the send did not leave.
NotLeft ==
  /\ \A d \in DOMAIN digests : digests[d].status = "PENDING" => d \notin left
  /\ phase \in Holding \cup {"next"} => \A t \in todo : t.id \notin left
  /\ phase \in {"check", "send"} => current.id \notin left
  /\ phase = "record" /\ result \in {"failed", "skipped"} => current.id \notin left
  /\ \A a \in Admins : admin[a].step \in {"check", "send"} => admin[a].id \notin left

----------------------------------------------------------------------------
(* Facts about the constants and the rows.                                 *)

Same == digests' = digests

LEMMA Constants ==
  /\ MaxAttempts \in Nat /\ MaxAttempts > 0
  /\ MaxDigests \in Nat /\ MaxDigests > 0 /\ 1 \in Ids
  /\ MaxPeriods \in Nat /\ MaxPeriods > 0
  /\ MaxUnusual \in Nat /\ Nobody \notin Copies
BY DigestAssumption DEF DigestAssumption, Ids

LEMMA UnusualCounts == ASSUME TypeOK, Unusual PROVE unusual' \in 0..MaxUnusual
BY Constants DEF TypeOK, Unusual

LEMMA Nothing ==
  /\ NoAdmin \in [step : {"idle", "create", "check", "send", "record", "resend"},
                  jobs : SUBSET Jobs, id : Ids, result : Results \cup {"none"}]
  /\ NoAdmin.step = "idle"
  /\ NoEvent \in [step : {"idle", "resolve", "suppress"}, id : Ids, event : Events, was : Statuses]
  /\ NoEvent.step = "idle" /\ NoEvent.was = "PENDING"
BY Constants DEF NoAdmin, NoEvent, Events, Statuses

LEMMA RowIds ==
  ASSUME Rows, TypeOK
  PROVE  /\ DOMAIN digests = 1..Len(digests) /\ Len(digests) \in Nat /\ DOMAIN digests \subseteq Ids
         /\ \A d \in DOMAIN digests : digests[d] \in Digests
BY Constants DEF Rows, TypeOK, Ids

LEMMA Unspent ==
  ASSUME Rows, TypeOK, NEW d \in DOMAIN digests, digests[d].status \notin {"FAILED", "SENT"}
  PROVE  digests[d].attempts \in Nat /\ digests[d].attempts <= MaxAttempts
<1>1. digests[d].attempts \in Nat
  BY RowIds DEF Digests
<1>2. ~ digests[d].attempts > MaxAttempts
  BY DEF Rows
<1>3. QED
  BY <1>1, <1>2, Constants

AdminSteps == {"idle", "create", "check", "send", "record", "resend"}
AdminRecord == [step : AdminSteps, jobs : SUBSET Jobs, id : Ids, result : Results \cup {"none"}]

LEMMA AdminType == TypeOK => admin \in [Admins -> AdminRecord]
BY DEF TypeOK, AdminRecord, AdminSteps

LEMMA SetsJobs ==
  ASSUME TypeOK, NEW a \in Admins, NEW s \in AdminSteps, NEW j \in SUBSET Jobs,
         admin' = [admin EXCEPT ![a].step = s, ![a].jobs = j]
  PROVE  /\ admin' \in [Admins -> AdminRecord] /\ admin'[a].step = s /\ admin'[a].id = admin[a].id
         /\ \A b \in Admins : b # a => admin'[b] = admin[b]
<1>1. admin \in [Admins -> AdminRecord]
  BY AdminType
<1>2. QED
  BY ONLY <1>1, a \in Admins, s \in AdminSteps, j \in SUBSET Jobs,
          admin' = [admin EXCEPT ![a].step = s, ![a].jobs = j] DEF AdminRecord

LEMMA SetsId ==
  ASSUME TypeOK, NEW a \in Admins, NEW s \in AdminSteps, NEW d \in Ids,
         admin' = [admin EXCEPT ![a].step = s, ![a].id = d]
  PROVE  /\ admin' \in [Admins -> AdminRecord] /\ admin'[a].step = s /\ admin'[a].id = d
         /\ \A b \in Admins : b # a => admin'[b] = admin[b]
<1>1. admin \in [Admins -> AdminRecord]
  BY AdminType
<1>2. QED
  BY ONLY <1>1, a \in Admins, s \in AdminSteps, d \in Ids,
          admin' = [admin EXCEPT ![a].step = s, ![a].id = d] DEF AdminRecord

LEMMA SetsResult ==
  ASSUME TypeOK, NEW a \in Admins, NEW s \in AdminSteps, NEW r \in Results,
         admin' = [admin EXCEPT ![a].step = s, ![a].result = r]
  PROVE  /\ admin' \in [Admins -> AdminRecord] /\ admin'[a].step = s /\ admin'[a].result = r /\ admin'[a].id = admin[a].id
         /\ \A b \in Admins : b # a => admin'[b] = admin[b]
<1>1. admin \in [Admins -> AdminRecord]
  BY AdminType
<1>2. QED
  BY ONLY <1>1, a \in Admins, s \in AdminSteps, r \in Results,
          admin' = [admin EXCEPT ![a].step = s, ![a].result = r] DEF AdminRecord

LEMMA CreatingFinite == IsFiniteSet(Creating) /\ Cardinality(Creating) \in Nat
<1>1. IsFiniteSet(Admins) /\ Creating \subseteq Admins
  BY DigestAssumption DEF DigestAssumption, Creating
<1>2. QED
  BY <1>1, FS_Subset, FS_CardinalityType

LEMMA PlacesSame ==
  ASSUME Places, Len(digests') = Len(digests),
         scheduler'.step = "idle" <=> scheduler.step = "idle",
         \A a \in Admins : admin'[a].step = "create" <=> admin[a].step = "create"
  PROVE  Places'
<1>1. Creating' = Creating
  BY DEF Creating
<1>2. QED
  BY <1>1 DEF Places

----------------------------------------------------------------------------
(* Steps that write no digest.                                             *)

LEMMA SchedulerChoosesType ==
  ASSUME TypeInv, SchedulerChooses
  PROVE  TypeInv'
<1> USE DEF TypeInv, SchedulerChooses, worker, history
<1>0. Same
  BY DEF Same
<1>1. TypeOK'
  BY <1>0 DEF TypeOK, Same, Chosen, NotIncluded
<1>2. Rows'
  BY <1>0, <1>1 DEF Same, Rows
<1>3. Places'
  BY <1>0, <1>1, PlacesSame DEF Same, TypeOK, Chosen, NotIncluded
<1>4. Listed'
  BY <1>0, <1>1 DEF Same, Listed, TypeOK, Chosen, NotIncluded
<1>5. Held'
  BY <1>0, <1>1 DEF Same, Held, Holding, TypeOK, Chosen, NotIncluded
<1>6. Waits'
  BY <1>0, <1>1 DEF Same, Waits, TypeOK, Chosen, NotIncluded
<1>7. Fresh'
  BY <1>0, <1>1 DEF Same, Fresh, Mine, Holding, Held, TypeOK, Chosen, NotIncluded
<1>8. Known'
  BY <1>0, <1>1 DEF Same, Known, TypeOK, Chosen, NotIncluded
<1>9. QED
  BY <1>1, <1>2, <1>3, <1>4, <1>5, <1>6, <1>7, <1>8

LEMMA NextPeriodType ==
  ASSUME TypeInv, NextPeriod
  PROVE  TypeInv'
<1> USE DEF TypeInv, NextPeriod, worker, history
<1>0. Same
  BY DEF Same
<1>1. TypeOK'
  BY <1>0, Constants DEF TypeOK, Same
<1>2. Rows'
  BY <1>0, <1>1 DEF Same, Rows
<1>3. Places'
  BY <1>0, <1>1, PlacesSame, Constants DEF Same, TypeOK
<1>4. Listed'
  BY <1>0, <1>1 DEF Same, Listed, TypeOK
<1>5. Held'
  BY <1>0, <1>1, Constants DEF Same, Held, Holding, TypeOK
<1>6. Waits'
  BY <1>0, <1>1 DEF Same, Waits, TypeOK
<1>7. Fresh'
  BY <1>0, <1>1, Constants DEF Same, Fresh, Mine, Holding, Held, TypeOK
<1>8. Known'
  BY <1>0, <1>1, Constants DEF Same, Known, TypeOK
<1>9. QED
  BY <1>1, <1>2, <1>3, <1>4, <1>5, <1>6, <1>7, <1>8

LEMMA NowChecksType ==
  ASSUME TypeInv, NEW a \in Admins, NowChecks(a)
  PROVE  TypeInv'
<1> USE DEF TypeInv, NowChecks, worker, history
<1>0. Same
  BY DEF Same
<1>1. TypeOK'
  <2>1. admin \in [Admins -> AdminRecord] /\ "send" \in AdminSteps
    BY AdminType DEF AdminSteps
  <2>2. admin' \in [Admins -> AdminRecord]
    BY ONLY <2>1, a \in Admins, admin' = [admin EXCEPT ![a].step = "send"] DEF AdminRecord
  <2>3. QED
    BY <1>0, <2>2 DEF TypeOK, Same, AdminRecord, AdminSteps
<1>2. Rows'
  BY <1>0, <1>1 DEF Same, Rows
<1>3. Places'
  BY <1>0, <1>1, PlacesSame DEF Same, TypeOK
<1>4. Listed'
  BY <1>0, <1>1 DEF Same, Listed, TypeOK
<1>5. Held'
  BY <1>0, <1>1 DEF Same, Held, Holding, TypeOK
<1>6. Waits'
  BY <1>0, <1>1 DEF Same, Waits, TypeOK
<1>7. Fresh'
  BY <1>0, <1>1 DEF Same, Fresh, Mine, Holding, Held, TypeOK
<1>8. Known'
  BY <1>0, <1>1 DEF Same, Known, TypeOK
<1>9. QED
  BY <1>1, <1>2, <1>3, <1>4, <1>5, <1>6, <1>7, <1>8

LEMMA AdminDiesType ==
  ASSUME TypeInv, NEW a \in Admins, AdminDies(a)
  PROVE  TypeInv'
<1> USE DEF TypeInv, AdminDies, worker, history
<1>0. Same
  BY DEF Same
<1>1. TypeOK'
  BY <1>0, UnusualCounts, Nothing DEF TypeOK, Same
<1>2. Rows'
  BY <1>0, <1>1 DEF Same, Rows
<1>3. Places'
  BY <1>0, <1>1, PlacesSame, UnusualCounts, Nothing DEF Same, TypeOK
<1>4. Listed'
  BY <1>0, <1>1 DEF Same, Listed, TypeOK
<1>5. Held'
  BY <1>0, <1>1, UnusualCounts, Nothing DEF Same, Held, Holding, TypeOK
<1>6. Waits'
  BY <1>0, <1>1 DEF Same, Waits, TypeOK
<1>7. Fresh'
  BY <1>0, <1>1, UnusualCounts, Nothing DEF Same, Fresh, Mine, Holding, Held, TypeOK
<1>8. Known'
  BY <1>0, <1>1, UnusualCounts, Nothing DEF Same, Known, TypeOK
<1>9. QED
  BY <1>1, <1>2, <1>3, <1>4, <1>5, <1>6, <1>7, <1>8

LEMMA ResendReadsType ==
  ASSUME TypeInv, NEW a \in Admins, ResendReads(a)
  PROVE  TypeInv'
<1> USE DEF TypeInv, ResendReads, worker, history
<1>0. Same
  BY DEF Same
<1>a. PICK d \in Ids : d \in In("FAILED") /\ d \in DOMAIN digests
           /\ digests[d].status = "FAILED" /\ admin' = [admin EXCEPT ![a].step = "resend", ![a].id = d]
  BY RowIds DEF In
<1>b. admin' \in [Admins -> AdminRecord]
  <2>1. "resend" \in AdminSteps
    BY DEF AdminSteps
  <2>2. QED
    BY <1>a, <2>1, SetsId
<1>1. TypeOK'
  BY <1>0, UnusualCounts, <1>a, <1>b DEF TypeOK, Same, AdminRecord, AdminSteps
<1>2. Rows'
  BY <1>0, <1>1 DEF Same, Rows
<1>3. Places'
  BY <1>0, <1>1, PlacesSame, UnusualCounts, <1>a, <1>b DEF Same, TypeOK, AdminRecord, AdminSteps
<1>4. Listed'
  BY <1>0, <1>1 DEF Same, Listed, TypeOK, AdminRecord, AdminSteps
<1>5. Held'
  BY <1>0, <1>1, UnusualCounts, <1>a, <1>b DEF Same, Held, Holding, TypeOK, AdminRecord, AdminSteps
<1>6. Waits'
  BY <1>0, <1>1 DEF Same, Waits, TypeOK, AdminRecord, AdminSteps
<1>7. Fresh'
  BY <1>0, <1>1, UnusualCounts, <1>a, <1>b DEF Same, Fresh, Mine, Holding, Held, TypeOK, AdminRecord, AdminSteps
<1>8. Known'
  BY <1>0, <1>1, UnusualCounts, <1>a, <1>b DEF Same, Known, TypeOK, AdminRecord, AdminSteps
<1>9. QED
  BY <1>1, <1>2, <1>3, <1>4, <1>5, <1>6, <1>7, <1>8

LEMMA WorkerDiesType ==
  ASSUME TypeInv, WorkerDies
  PROVE  TypeInv'
<1> USE DEF TypeInv, WorkerDies, worker, history
<1>0. Same
  BY DEF Same
<1>1. TypeOK'
  BY <1>0, UnusualCounts, Constants DEF TypeOK, Same
<1>2. Rows'
  BY <1>0, <1>1 DEF Same, Rows
<1>3. Places'
  BY <1>0, <1>1, PlacesSame, UnusualCounts, Constants DEF Same, TypeOK
<1>4. Listed'
  BY <1>0, <1>1 DEF Same, Listed, TypeOK
<1>5. Held'
  BY <1>0, <1>1, UnusualCounts, Constants DEF Same, Held, Holding, TypeOK
<1>6. Waits'
  BY <1>0, <1>1 DEF Same, Waits, TypeOK
<1>7. Fresh'
  BY <1>0, <1>1, UnusualCounts, Constants DEF Same, Fresh, Mine, Holding, Held, TypeOK
<1>8. Known'
  BY <1>0, <1>1, UnusualCounts, Constants DEF Same, Known, TypeOK
<1>9. QED
  BY <1>1, <1>2, <1>3, <1>4, <1>5, <1>6, <1>7, <1>8

LEMMA CheckType ==
  ASSUME TypeInv, Check
  PROVE  TypeInv'
<1> USE DEF TypeInv, Check, worker, history
<1>0. Same
  BY DEF Same
<1>1. TypeOK'
  BY <1>0 DEF TypeOK, Same
<1>2. Rows'
  BY <1>0, <1>1 DEF Same, Rows
<1>3. Places'
  BY <1>0, <1>1, PlacesSame DEF Same, TypeOK
<1>4. Listed'
  BY <1>0, <1>1 DEF Same, Listed, TypeOK
<1>5. Held'
  BY <1>0, <1>1 DEF Same, Held, Holding, TypeOK
<1>6. Waits'
  BY <1>0, <1>1 DEF Same, Waits, TypeOK
<1>7. Fresh'
  BY <1>0, <1>1 DEF Same, Fresh, Mine, Holding, Held, TypeOK
<1>8. Known'
  BY <1>0, <1>1 DEF Same, Known, TypeOK
<1>9. QED
  BY <1>1, <1>2, <1>3, <1>4, <1>5, <1>6, <1>7, <1>8

LEMMA StopType ==
  ASSUME TypeInv, Stop
  PROVE  TypeInv'
<1> USE DEF TypeInv, Stop, worker, history
<1>0. Same
  BY DEF Same
<1>1. TypeOK'
  BY <1>0 DEF TypeOK, Same, Results
<1>2. Rows'
  BY <1>0, <1>1 DEF Same, Rows
<1>3. Places'
  BY <1>0, <1>1, PlacesSame DEF Same, TypeOK, Results
<1>4. Listed'
  BY <1>0, <1>1 DEF Same, Listed, TypeOK, Results
<1>5. Held'
  BY <1>0, <1>1 DEF Same, Held, Holding, TypeOK, Results
<1>6. Waits'
  BY <1>0, <1>1 DEF Same, Waits, TypeOK, Results
<1>7. Fresh'
  BY <1>0, <1>1 DEF Same, Fresh, Mine, Holding, Held, TypeOK, Results
<1>8. Known'
  BY <1>0, <1>1 DEF Same, Known, TypeOK, Results
<1>9. QED
  BY <1>1, <1>2, <1>3, <1>4, <1>5, <1>6, <1>7, <1>8

LEMMA HookSuppressesType ==
  ASSUME TypeInv, NEW h \in Hooks, HookSuppresses(h)
  PROVE  TypeInv'
<1> USE DEF TypeInv, HookSuppresses, worker, history
<1>0. Same
  BY DEF Same
<1>1. TypeOK'
  BY <1>0, Nothing DEF TypeOK, Same
<1>2. Rows'
  BY <1>0, <1>1 DEF Same, Rows
<1>3. Places'
  BY <1>0, <1>1, PlacesSame, Nothing DEF Same, TypeOK
<1>4. Listed'
  BY <1>0, <1>1 DEF Same, Listed, TypeOK
<1>5. Held'
  BY <1>0, <1>1, Nothing DEF Same, Held, Holding, TypeOK
<1>6. Waits'
  BY <1>0, <1>1 DEF Same, Waits, TypeOK
<1>7. Fresh'
  BY <1>0, <1>1, Nothing DEF Same, Fresh, Mine, Holding, Held, TypeOK
<1>8. Known'
  BY <1>0, <1>1, Nothing DEF Same, Known, TypeOK
<1>9. QED
  BY <1>1, <1>2, <1>3, <1>4, <1>5, <1>6, <1>7, <1>8

LEMMA OptOutType ==
  ASSUME TypeInv, OptOut
  PROVE  TypeInv'
<1> USE DEF TypeInv, OptOut, worker, history
<1>0. Same
  BY DEF Same
<1>1. TypeOK'
  BY <1>0, UnusualCounts DEF TypeOK, Same
<1>2. Rows'
  BY <1>0, <1>1 DEF Same, Rows
<1>3. Places'
  BY <1>0, <1>1, PlacesSame, UnusualCounts DEF Same, TypeOK
<1>4. Listed'
  BY <1>0, <1>1 DEF Same, Listed, TypeOK
<1>5. Held'
  BY <1>0, <1>1, UnusualCounts DEF Same, Held, Holding, TypeOK
<1>6. Waits'
  BY <1>0, <1>1 DEF Same, Waits, TypeOK
<1>7. Fresh'
  BY <1>0, <1>1, UnusualCounts DEF Same, Fresh, Mine, Holding, Held, TypeOK
<1>8. Known'
  BY <1>0, <1>1, UnusualCounts DEF Same, Known, TypeOK
<1>9. QED
  BY <1>1, <1>2, <1>3, <1>4, <1>5, <1>6, <1>7, <1>8

LEMMA OptInType ==
  ASSUME TypeInv, OptIn
  PROVE  TypeInv'
<1> USE DEF TypeInv, OptIn, worker, history
<1>0. Same
  BY DEF Same
<1>1. TypeOK'
  BY <1>0, UnusualCounts DEF TypeOK, Same
<1>2. Rows'
  BY <1>0, <1>1 DEF Same, Rows
<1>3. Places'
  BY <1>0, <1>1, PlacesSame, UnusualCounts DEF Same, TypeOK
<1>4. Listed'
  BY <1>0, <1>1 DEF Same, Listed, TypeOK
<1>5. Held'
  BY <1>0, <1>1, UnusualCounts DEF Same, Held, Holding, TypeOK
<1>6. Waits'
  BY <1>0, <1>1 DEF Same, Waits, TypeOK
<1>7. Fresh'
  BY <1>0, <1>1, UnusualCounts DEF Same, Fresh, Mine, Holding, Held, TypeOK
<1>8. Known'
  BY <1>0, <1>1, UnusualCounts DEF Same, Known, TypeOK
<1>9. QED
  BY <1>1, <1>2, <1>3, <1>4, <1>5, <1>6, <1>7, <1>8

LEMMA DiscoverType ==
  ASSUME TypeInv, Discover
  PROVE  TypeInv'
<1> USE DEF TypeInv, Discover, worker, history
<1>0. Same
  BY DEF Same
<1>1. TypeOK'
  BY <1>0 DEF TypeOK, Same
<1>2. Places'
  <2>1. Creating' = Creating
    BY DEF Creating
  <2>2. Len(digests) + Cardinality(Creating) < MaxDigests /\ scheduler'.step # "idle"
    BY RowIds, CreatingFinite, Constants DEF Room, TypeOK
  <2>3. QED
    BY <2>1, <2>2, RowIds, CreatingFinite, Constants DEF Places
<1>3. Rows' /\ Listed' /\ Held' /\ Waits' /\ Known'
  BY DEF Rows, Listed, Held, Waits, Known
<1>4. Fresh'
  BY DEF Fresh, Mine
<1>5. QED
  BY <1>1, <1>2, <1>3, <1>4

LEMMA NowChoosesType ==
  ASSUME TypeInv, NEW a \in Admins, NowChooses(a)
  PROVE  TypeInv'
<1> USE DEF TypeInv, NowChooses, worker, history
<1>0. admin' \in [Admins -> AdminRecord]
  <2>1. Chosen \in SUBSET Jobs /\ "create" \in AdminSteps
    BY DEF Chosen, NotIncluded, AdminSteps
  <2>2. QED
    BY <2>1, SetsJobs
<1>1. TypeOK'
  BY <1>0 DEF TypeOK, AdminRecord, AdminSteps
<1>2. Places'
  <2>1. Creating' = Creating \cup {a} /\ a \notin Creating
    BY DEF Creating, TypeOK
  <2>2. Cardinality(Creating') = Cardinality(Creating) + 1
    BY <2>1, CreatingFinite, FS_AddElement
  <2>3. Len(digests) + Cardinality(Creating) + (IF scheduler.step = "idle" THEN 0 ELSE 1) < MaxDigests
    BY DEF Room
  <2>4. QED
    BY <2>2, <2>3, RowIds, CreatingFinite, Constants DEF Places
<1>3. Rows' /\ Listed' /\ Held' /\ Waits'
  BY DEF Rows, Listed, Held, Waits
<1>4. Fresh' /\ Known'
  BY DEF Fresh, Mine, Known, TypeOK, Holding
<1>5. QED
  BY <1>1, <1>2, <1>3, <1>4

LEMMA NowStopsType ==
  ASSUME TypeInv, NEW a \in Admins, NowStops(a)
  PROVE  TypeInv'
<1> USE DEF TypeInv, worker, history
<1>1. PICK r \in {"skipped", "failed"} :
        admin' = [admin EXCEPT ![a].step = "record", ![a].result = r]
  BY DEF NowStops
<1>2. /\ admin[a].step = "check" /\ r \in Results
      /\ UNCHANGED <<digests, enabled, period, scheduler, worker, unknowns, hook, unusual, history>>
  BY DEF NowStops, Results
<1>0. admin' \in [Admins -> AdminRecord]
  <2>1. "record" \in AdminSteps
    BY DEF AdminSteps
  <2>2. QED
    BY <1>1, <1>2, <2>1, SetsResult
<1>3. TypeOK'
  BY <1>0, <1>2 DEF TypeOK, AdminRecord, AdminSteps
<1>4. Places'
  BY <1>1, <1>2, PlacesSame DEF TypeOK
<1>5. Rows' /\ Listed' /\ Held' /\ Waits'
  BY <1>2 DEF Rows, Listed, Held, Waits
<1>6. Fresh' /\ Known'
  BY <1>1, <1>2 DEF Fresh, Mine, Known, TypeOK, Holding
<1>7. QED
  BY <1>3, <1>4, <1>5, <1>6

\* Handing a digest to the provider changes the histories only.
LEMMA HandsType ==
  ASSUME TypeInv, NEW d \in Ids, d \in DOMAIN digests, NEW answer \in Results, Hands(d, answer)
  PROVE  /\ accepted' \in [Ids -> Nat] /\ late' \in Nat /\ resends' = resends /\ overlapped' = overlapped
         /\ left' \subseteq DOMAIN digests /\ left' \subseteq Ids
         /\ \A e \in Ids : e # d => accepted'[e] = accepted[e]
         /\ left \subseteq left' /\ left' \subseteq left \cup {d}
         /\ answer = "failed" => left' = left
BY RowIds DEF Hands, TypeInv, TypeOK, Known

LEMMA NowSendsType ==
  ASSUME TypeInv, NEW a \in Admins, NowSends(a)
  PROVE  TypeInv'
<1> USE DEF TypeInv, worker
<1>1. PICK answer \in Results \ {"skipped"} :
        /\ Hands(admin[a].id, answer)
        /\ admin' = [admin EXCEPT ![a].step = "record", ![a].result = Outcome(answer)]
  BY DEF NowSends
<1>2. /\ admin[a].step = "send" /\ Outcome(answer) \in Results
      /\ UNCHANGED <<digests, enabled, period, scheduler, worker, unknowns, hook, unusual>>
  BY DEF NowSends, Outcome
<1>3. admin[a].id \in Ids /\ admin[a].id \in DOMAIN digests
  BY <1>2, RowIds DEF Fresh, Holding
<1>4. /\ accepted' \in [Ids -> Nat] /\ late' \in Nat /\ resends' \in Nat
      /\ left' \subseteq DOMAIN digests /\ left' \subseteq Ids /\ overlapped' = overlapped
  BY <1>1, <1>3, HandsType DEF TypeOK
<1>0. admin' \in [Admins -> AdminRecord]
  <2>1. "record" \in AdminSteps
    BY DEF AdminSteps
  <2>2. QED
    BY <1>1, <1>2, <2>1, SetsResult
<1>5. TypeOK'
  BY <1>0, <1>2, <1>4 DEF TypeOK, AdminRecord, AdminSteps
<1>6. Places'
  BY <1>1, <1>2, PlacesSame DEF TypeOK
<1>7. Rows' /\ Listed' /\ Held' /\ Waits'
  BY <1>2 DEF Rows, Listed, Held, Waits
<1>8. Fresh' /\ Known'
  BY <1>1, <1>2, <1>4 DEF Fresh, Mine, Known, TypeOK, Holding
<1>9. QED
  BY <1>5, <1>6, <1>7, <1>8

LEMMA SendType ==
  ASSUME TypeInv, Send
  PROVE  TypeInv'
<1> USE DEF TypeInv
<1>1. PICK answer \in Results \ {"skipped"} :
        Hands(current.id, answer) /\ result' = Outcome(answer)
  BY DEF Send
<1>2. /\ phase = "send" /\ phase' = "record" /\ result' \in Results
      /\ UNCHANGED <<digests, enabled, period, scheduler, admin, todo, current, unknowns,
                     hook, unusual>>
  BY <1>1 DEF Send, Outcome
<1>3. current \in Copies /\ current.id \in Ids /\ current.id \in DOMAIN digests
  BY <1>2, RowIds DEF Held, Holding
<1>4. /\ accepted' \in [Ids -> Nat] /\ late' \in Nat /\ resends' \in Nat
      /\ left' \subseteq DOMAIN digests /\ left' \subseteq Ids /\ overlapped' = overlapped
  BY <1>1, <1>3, HandsType DEF TypeOK
<1>5. TypeOK'
  BY <1>2, <1>4 DEF TypeOK
<1>6. Places'
  BY <1>2, PlacesSame
<1>7. Rows' /\ Listed' /\ Held' /\ Waits'
  BY <1>2 DEF Rows, Listed, Held, Holding, Waits
<1>8. Fresh' /\ Known'
  BY <1>2, <1>4 DEF Fresh, Mine, Known
<1>9. QED
  BY <1>5, <1>6, <1>7, <1>8

\* A copy of a row has its identity and its attempts.
LEMMA CopyType ==
  ASSUME TypeInv, NEW d \in DOMAIN digests
  PROVE  Copy(d) \in Copies /\ Copy(d).id = d /\ Copy(d).attempts = digests[d].attempts
BY RowIds DEF TypeInv, Copy, Copies, Digests

LEMMA TickType ==
  ASSUME TypeInv, Tick
  PROVE  TypeInv'
<1> USE DEF TypeInv, Tick, history
<1>1. \A t \in todo' : /\ t \in Copies /\ t.id \in DOMAIN digests
                       /\ digests[t.id].status = "PROCESSING" /\ digests[t.id].old
                       /\ t = Copy(t.id) /\ t.attempts = digests[t.id].attempts
  BY CopyType DEF In
<1>2. \A t \in todo' : t.attempts <= MaxAttempts /\ digests[t.id].attempts <= MaxAttempts
  BY <1>1, Unspent
<1>3. TypeOK'
  BY <1>1 DEF TypeOK
<1>4. Places'
  BY PlacesSame
<1>5. Rows' /\ Waits' /\ Known'
  BY DEF Rows, Waits, Known
<1>6. Listed'
  BY <1>1, <1>2 DEF Listed
<1>7. Held'
  BY DEF Held, Holding
<1>8. Fresh'
  BY <1>1 DEF Fresh, Mine
<1>9. QED
  BY <1>3, <1>4, <1>5, <1>6, <1>7, <1>8

LEMMA ListType ==
  ASSUME TypeInv, List
  PROVE  TypeInv'
<1> USE DEF TypeInv
<1>0. UNCHANGED <<digests, enabled, period, scheduler, admin, current, result, unknowns,
                  hook, unusual, history>>
      /\ phase = "recover" /\ phase' \in {"idle", "next"} /\ (phase' = "idle" => todo' = {})
  BY DEF List
<1>1. \A t \in todo' : /\ t \in Copies /\ t.id \in DOMAIN digests
                       /\ digests[t.id].status = "PENDING"
                       /\ t = Copy(t.id) /\ t.attempts = digests[t.id].attempts
  <2>1. PICK first \in SUBSET In("PENDING") : todo' = {Copy(d) : d \in first}
    BY DEF List
  <2>2. QED
    BY <2>1, CopyType DEF In
<1>2. \A t \in todo' : t.attempts <= MaxAttempts /\ digests[t.id].attempts <= MaxAttempts
  BY <1>1, Unspent
<1>3. TypeOK'
  BY <1>0, <1>1 DEF TypeOK, history
<1>4. Places'
  BY <1>0, PlacesSame
<1>5. Rows' /\ Waits' /\ Known'
  BY <1>0 DEF Rows, Waits, Known, history
<1>6. Listed'
  BY <1>0, <1>1, <1>2 DEF Listed
<1>7. Held'
  BY <1>0 DEF Held, Holding
<1>8. Fresh'
  BY <1>0, <1>1 DEF Fresh, Mine
<1>9. QED
  BY <1>3, <1>4, <1>5, <1>6, <1>7, <1>8

LEMMA ListUnknownsType ==
  ASSUME TypeInv, ListUnknowns
  PROVE  TypeInv'
<1> USE DEF TypeInv, ListUnknowns, worker, history
<1>1. \A t \in unknowns' : /\ t \in Copies /\ t.id \in DOMAIN digests /\ t.attempts < MaxAttempts
                           /\ digests[t.id].status = "OUTCOME_UNKNOWN" /\ t = Copy(t.id)
  BY CopyType DEF In
<1>2. TypeOK'
  BY <1>1 DEF TypeOK
<1>3. Places'
  BY PlacesSame
<1>4. Rows' /\ Listed' /\ Held' /\ Known'
  BY DEF Rows, Listed, Held, Known
<1>5. Waits'
  BY <1>1 DEF Waits
<1>6. Fresh'
  BY <1>1 DEF Fresh, Mine
<1>7. QED
  BY <1>2, <1>3, <1>4, <1>5, <1>6

LEMMA HookReadsType ==
  ASSUME TypeInv, NEW h \in Hooks, NEW d \in DOMAIN digests, NEW e \in Events, HookReads(h, d, e)
  PROVE  TypeInv'
<1> USE DEF TypeInv, HookReads, worker, history
<1>1. d \in Ids /\ digests[d].status \in Statuses
  BY RowIds DEF Digests
<1>2. TypeOK'
  BY <1>1, UnusualCounts DEF TypeOK
<1>3. Places'
  BY PlacesSame
<1>4. Rows' /\ Listed' /\ Held' /\ Waits'
  BY DEF Rows, Listed, Held, Waits
<1>5. Fresh' /\ Known'
  BY DEF Fresh, Mine, Known, TypeOK
<1>6. QED
  BY <1>2, <1>3, <1>4, <1>5

----------------------------------------------------------------------------
(* Steps that write one digest.                                            *)

\* The row d gets this status, attempts and age; its jobs and its source stay.
RowIs(d, s, n, o) ==
  /\ digests' \in Seq(Digests) /\ Len(digests') = Len(digests) /\ DOMAIN digests' = DOMAIN digests
  /\ digests'[d].status = s /\ digests'[d].attempts = n /\ digests'[d].old = o
  /\ \A e \in DOMAIN digests : e # d => digests'[e] = digests[e]
  /\ \A e \in DOMAIN digests : digests'[e].jobs = digests[e].jobs /\ digests'[e].source = digests[e].source

LEMMA SetsRow ==
  ASSUME TypeInv, NEW d \in DOMAIN digests, NEW s \in Statuses, NEW n \in 0..(MaxAttempts + 1),
         NEW o \in BOOLEAN,
         digests' = [digests EXCEPT ![d].status = s, ![d].attempts = n, ![d].old = o]
  PROVE  RowIs(d, s, n, o)
<1>1. digests \in [1..Len(digests) -> Digests] /\ d \in 1..Len(digests) /\ Len(digests) \in Nat
  BY RowIds DEF TypeInv, Rows
<1>2. /\ digests' \in [1..Len(digests) -> Digests]
      /\ digests'[d].status = s /\ digests'[d].attempts = n /\ digests'[d].old = o
      /\ \A e \in 1..Len(digests) : e # d => digests'[e] = digests[e]
      /\ digests'[d].jobs = digests[d].jobs /\ digests'[d].source = digests[d].source
  <2> DEFINE row == [[[digests[d] EXCEPT !.status = s] EXCEPT !.attempts = n] EXCEPT !.old = o]
  <2>1. digests[d] \in Digests
    BY <1>1
  <2>2. /\ row \in Digests /\ row.status = s /\ row.attempts = n /\ row.old = o
        /\ row.jobs = digests[d].jobs /\ row.source = digests[d].source
    BY ONLY <2>1, s \in Statuses, n \in 0..(MaxAttempts + 1), o \in BOOLEAN DEF Digests
  <2>3. digests' = [digests EXCEPT ![d] = row]
    BY <1>1
  <2> HIDE DEF row
  <2>4. QED
    BY ONLY <1>1, <2>2, <2>3
<1>3. digests' \in Seq(Digests) /\ Len(digests') = Len(digests) /\ DOMAIN digests' = 1..Len(digests)
  BY <1>1, <1>2
<1>4. QED
  BY <1>1, <1>2, <1>3 DEF RowIs

LEMMA WritesRow ==
  ASSUME TypeInv, NEW d \in DOMAIN digests, NEW s \in Statuses, NEW n \in 0..(MaxAttempts + 1),
         Writes(d, s, n)
  PROVE  RowIs(d, s, n, FALSE)
BY SetsRow DEF Writes

LEMMA TurnsRow ==
  ASSUME TypeInv, NEW d \in DOMAIN digests, NEW s \in Statuses, Turns(d, s)
  PROVE  RowIs(d, s, digests[d].attempts, FALSE) /\ digests[d].attempts \in 0..(MaxAttempts + 1)
<1>1. digests[d].attempts \in 0..(MaxAttempts + 1)
  BY RowIds DEF TypeInv, Digests
<1>2. QED
  BY <1>1, WritesRow DEF Turns

LEMMA RowType ==
  ASSUME TypeInv, NEW d \in DOMAIN digests, NEW s, NEW n, NEW o, RowIs(d, s, n, o),
         o => s \in {"PROCESSING", "OUTCOME_UNKNOWN"},
         n > MaxAttempts => s \in {"FAILED", "SENT"}
  PROVE  /\ Rows'
         /\ Len(digests') <= MaxDigests /\ \A e \in DOMAIN digests' : digests'[e] \in Digests
         /\ \A e \in DOMAIN digests' :
              digests'[e].old => digests'[e].status \in {"PROCESSING", "OUTCOME_UNKNOWN"}
<1>1. Rows'
  BY DEF TypeInv, Rows, RowIs
<1>2. DOMAIN digests' = 1..Len(digests') /\ \A e \in 1..Len(digests') : digests'[e] \in Digests
  BY DEF RowIs
<1>3. \A e \in DOMAIN digests' :
        digests'[e].old => digests'[e].status \in {"PROCESSING", "OUTCOME_UNKNOWN"}
  BY DEF RowIs, TypeInv, TypeOK
<1>4. QED
  BY <1>1, <1>2, <1>3 DEF TypeInv, TypeOK, RowIs

\* A failed attempt is counted from a copy whose budget is not used up.
LEMMA FailsRow ==
  ASSUME TypeInv, NEW t \in Copies, t.id \in DOMAIN digests, t.attempts <= MaxAttempts, Fails(t)
  PROVE  \E s \in {"FAILED", "PENDING"}, n \in 0..(MaxAttempts + 1) :
           /\ RowIs(t.id, s, n, FALSE)
           /\ n > MaxAttempts => s = "FAILED"
<1> DEFINE n == t.attempts + 1
           s == IF n >= MaxAttempts THEN "FAILED" ELSE "PENDING"
<1>1. n \in 0..(MaxAttempts + 1)
  BY Constants DEF Copies
<1>2. Writes(t.id, s, n)
  BY DEF Fails, NextAttempts
<1>3. s \in {"FAILED", "PENDING"} /\ s \in Statuses /\ (n > MaxAttempts => s = "FAILED")
  BY <1>1, Constants DEF Statuses
<1> HIDE DEF n, s
<1>4. RowIs(t.id, s, n, FALSE)
  BY <1>1, <1>2, <1>3, WritesRow
<1>5. QED
  BY <1>1, <1>3, <1>4

\* What a write to one row leaves alone, whoever writes it.
LEMMA WriteKeeps ==
  ASSUME TypeInv, NEW d \in DOMAIN digests, NEW s, NEW n \in Nat, NEW o, RowIs(d, s, n, o),
         o => s \in {"PROCESSING", "OUTCOME_UNKNOWN"},
         n > MaxAttempts => s \in {"FAILED", "SENT"},
         n > MaxAttempts => \A t \in todo' : t.id # d,
         scheduler' = scheduler, todo' \subseteq todo, phase' = "idle" => todo' = {},
         unknowns' \subseteq unknowns, left' \subseteq left,
         current' \in Copies => current' = current \/ current' \in todo,
         \A h \in Hooks : hook'[h] = hook[h] \/ hook'[h].step # "resolve",
         \A h \in Hooks : hook'[h].was = "OUTCOME_UNKNOWN" =>
           hook[h].was = "OUTCOME_UNKNOWN" /\ hook'[h].id = hook[h].id,
         \A b \in Admins : \/ admin'[b] = admin[b]
                           \/ /\ admin'[b].step = "idle"
                              /\ admin[b].step \in Holding \cup {"resend"},
         \A b \in Admins : admin[b].step \in Holding /\ admin'[b] = admin[b] => admin[b].id # d
  PROVE  Rows' /\ Places' /\ Listed' /\ Waits' /\ Fresh' /\ Known'
<1> USE DEF TypeInv
<1>1. Rows'
  BY RowType
<1>2. Places'
  <2>1. \A b \in Admins : admin'[b].step = "create" <=> admin[b].step = "create"
    BY DEF Holding
  <2>2. QED
    BY <2>1, PlacesSame DEF RowIs
<1>3. Listed'
  <2>1. \A t \in todo' : digests'[t.id].attempts <= MaxAttempts
    <3> SUFFICES ASSUME NEW t \in todo' PROVE digests'[t.id].attempts <= MaxAttempts
      OBVIOUS
    <3>1. CASE t.id # d
      BY <3>1 DEF Listed, RowIs
    <3>2. CASE t.id = d
      BY <3>2, Constants DEF RowIs
    <3>3. QED
      BY <3>1, <3>2
  <2>2. QED
    BY <2>1 DEF Listed, RowIs
<1>4. Waits'
  BY DEF Waits, RowIs
<1>5. Fresh'
  <2> SUFFICES ASSUME NEW a \in Admins, admin'[a].step \in Holding
      PROVE  /\ admin'[a].id \in DOMAIN digests'
             /\ digests'[admin'[a].id].status = "PROCESSING" /\ ~digests'[admin'[a].id].old
             /\ digests'[admin'[a].id].attempts = 0
             /\ admin'[a].step = "record" => admin'[a].result \in Results
             /\ Mine(a, admin[a].id)'
    BY DEF Fresh
  <2>1. admin'[a] = admin[a] /\ admin[a].step \in Holding /\ admin[a].id # d
    BY DEF Holding
  <2>2. Mine(a, admin[a].id) /\ admin[a].id \in DOMAIN digests
    BY <2>1 DEF Fresh
  <2>3. Mine(a, admin[a].id)'
    BY <2>1, <2>2 DEF Mine, Holding
  <2>4. QED
    BY <2>1, <2>2, <2>3 DEF Fresh, RowIs
<1>6. Known'
  BY DEF Known, RowIs
<1>7. QED
  BY <1>1, <1>2, <1>3, <1>4, <1>5, <1>6

LEMMA RecoverType ==
  ASSUME TypeInv, NEW t \in todo, Recover(t)
  PROVE  TypeInv'
<1>1. t \in Copies /\ t.id \in DOMAIN digests /\ t.attempts <= MaxAttempts /\ t.id \in Ids
  BY RowIds DEF TypeInv, TypeOK, Listed
<1>2. PICK s \in {"FAILED", "PENDING"}, n \in 0..(MaxAttempts + 1) :
        RowIs(t.id, s, n, FALSE) /\ (n > MaxAttempts => s = "FAILED")
  BY <1>1, FailsRow DEF Recover
<1>3. /\ phase = "recover" /\ todo' = todo \ {t} /\ left' = left \ {t.id}
      /\ UNCHANGED <<enabled, period, scheduler, admin, phase, current, result, unknowns,
                     hook, unusual, resends, accepted, late, overlapped>>
  BY DEF Recover, QueuesAgain
<1>4. Rows' /\ Places' /\ Listed' /\ Waits' /\ Fresh' /\ Known'
  <2>1. \A u \in todo' : u.id # t.id
    BY <1>3 DEF TypeInv, Listed
  <2>2. \A b \in Admins : admin[b].step \in Holding => admin[b].id # t.id
    BY DEF TypeInv, Fresh, Mine
  <2>3. n \in Nat /\ phase' # "idle" /\ current' = current
    BY <1>3, Constants
  <2>4. QED
    BY <1>1, <1>2, <1>3, <2>1, <2>2, <2>3, WriteKeeps
<1>5. TypeOK'
  BY <1>1, <1>2, <1>3, RowType DEF TypeInv, TypeOK
<1>6. Held'
  BY <1>3 DEF TypeInv, Held, Holding
<1>7. QED
  BY <1>4, <1>5, <1>6 DEF TypeInv

LEMMA TakeType ==
  ASSUME TypeInv, NEW t \in todo, Take(t)
  PROVE  TypeInv'
<1>1. t \in Copies /\ t.id \in DOMAIN digests /\ t.attempts <= MaxAttempts /\ t.id \in Ids
      /\ digests[t.id].attempts <= MaxAttempts
  BY RowIds DEF TypeInv, TypeOK, Listed
<1>2. RowIs(t.id, "PROCESSING", digests[t.id].attempts, FALSE)
      /\ digests[t.id].attempts \in 0..(MaxAttempts + 1)
  BY <1>1, TurnsRow DEF Take, Statuses
<1>3. /\ phase = "next" /\ phase' = "check" /\ todo' = todo \ {t} /\ current' = t
      /\ UNCHANGED <<enabled, period, scheduler, admin, result, unknowns, hook, unusual, history>>
  BY DEF Take
<1>4. Rows' /\ Places' /\ Listed' /\ Waits' /\ Fresh' /\ Known'
  <2>1. ~ digests[t.id].attempts > MaxAttempts /\ digests[t.id].attempts \in Nat
    BY <1>1, <1>2, Constants
  <2>2. \A b \in Admins : admin[b].step \in Holding => admin[b].id # t.id
    BY DEF TypeInv, Fresh, Mine
  <2>3. left' = left
    BY <1>3 DEF history
  <2>4. QED
    BY <1>1, <1>2, <1>3, <2>1, <2>2, <2>3, WriteKeeps
<1>5. TypeOK'
  <2>1. ~ digests[t.id].attempts > MaxAttempts
    BY <1>1, <1>2, Constants
  <2>2. QED
    BY <1>1, <1>2, <1>3, <2>1, RowType DEF TypeInv, TypeOK, history
<1>6. Held'
  BY <1>1, <1>2, <1>3 DEF TypeInv, Held, Holding, Listed, RowIs
<1>7. QED
  BY <1>4, <1>5, <1>6 DEF TypeInv

\* Whatever the worker writes to the digest in hand, it lets go of it.
LEMMA LetsGo ==
  ASSUME TypeInv, phase \in Holding, NEW s \in Statuses, NEW n \in 0..(MaxAttempts + 1),
         RowIs(current.id, s, n, FALSE), n > MaxAttempts => s = "FAILED",
         GoesOn, unusual' \in 0..MaxUnusual, left' \subseteq left,
         UNCHANGED <<resends, accepted, late, overlapped>>
  PROVE  TypeInv'
<1>1. current \in Copies /\ current.id \in DOMAIN digests /\ \A t \in todo : t.id # current.id
  BY DEF TypeInv, Held
<1>2. /\ current' = Nobody /\ result' = "none" /\ todo' = todo
      /\ phase' = IF todo = {} THEN "idle" ELSE "next"
      /\ UNCHANGED <<enabled, period, scheduler, admin, unknowns, hook>>
  BY DEF GoesOn
<1>3. Rows' /\ Places' /\ Listed' /\ Waits' /\ Fresh' /\ Known'
  <2>1. \A b \in Admins : admin[b].step \in Holding => admin[b].id # current.id
    BY <1>1 DEF TypeInv, Fresh, Mine
  <2>2. n \in Nat /\ (phase' = "idle" => todo' = {}) /\ current' \notin Copies
    BY <1>2, Constants
  <2>3. QED
    BY <1>1, <1>2, <2>1, <2>2, WriteKeeps
<1>4. TypeOK'
  BY <1>1, <1>2, RowType DEF TypeInv, TypeOK
<1>5. Held'
  BY <1>2, Constants DEF Held, Holding
<1>6. QED
  BY <1>3, <1>4, <1>5 DEF TypeInv

\* What the worker has in hand, and what Record and Throws write to it.
LEMMA InHandType ==
  ASSUME TypeInv, phase \in Holding
  PROVE  /\ current \in Copies /\ current.id \in DOMAIN digests /\ current.id \in Ids
         /\ current.attempts <= MaxAttempts /\ digests[current.id].attempts <= MaxAttempts
         /\ digests[current.id].attempts \in 0..(MaxAttempts + 1)
<1>1. current \in Copies /\ current.id \in DOMAIN digests
  BY DEF TypeInv, Held
<1>2. QED
  BY <1>1, RowIds DEF TypeInv, Held, Digests

LEMMA RecordRow ==
  ASSUME TypeInv, Record
  PROVE  /\ phase \in Holding /\ phase = "record" /\ result \in Results
         /\ \E s \in {"SKIPPED", "OUTCOME_UNKNOWN", "FAILED", "PENDING", "SENT"},
               n \in 0..(MaxAttempts + 1) :
              /\ RowIs(current.id, s, n, FALSE)
              /\ n > MaxAttempts => s = "FAILED"
              /\ s = "PENDING" => result = "failed"
<1>0. phase \in Holding /\ phase = "record" /\ result \in Results
  BY DEF Record, Holding, TypeInv, Held
<1>1. current \in Copies /\ current.id \in DOMAIN digests
      /\ current.attempts <= MaxAttempts /\ digests[current.id].attempts <= MaxAttempts
      /\ digests[current.id].attempts \in 0..(MaxAttempts + 1)
  BY <1>0, InHandType
<1>2. CASE result = "failed"
  <2>1. Fails(current)
    BY <1>2 DEF Record
  <2>2. QED
    BY <1>0, <1>1, <1>2, <2>1, FailsRow
<1>3. CASE result # "failed"
  <2>1. PICK s \in {"SKIPPED", "OUTCOME_UNKNOWN", "SENT"} : Turns(current.id, s)
    BY <1>0, <1>3 DEF Record, Results
  <2>2. RowIs(current.id, s, digests[current.id].attempts, FALSE)
    BY <1>1, <2>1, TurnsRow DEF Statuses
  <2>3. ~ digests[current.id].attempts > MaxAttempts
    BY <1>1, Constants
  <2>4. QED
    BY <1>0, <1>1, <2>2, <2>3
<1>4. QED
  BY <1>2, <1>3

LEMMA RecordType == TypeInv /\ Record => TypeInv'
<1> SUFFICES ASSUME TypeInv, Record PROVE TypeInv'
  OBVIOUS
<1>1. PICK s \in {"SKIPPED", "OUTCOME_UNKNOWN", "FAILED", "PENDING", "SENT"},
           n \in 0..(MaxAttempts + 1) :
        RowIs(current.id, s, n, FALSE) /\ (n > MaxAttempts => s = "FAILED")
  BY RecordRow
<1>2. /\ GoesOn /\ unusual' = unusual
      /\ left' = left /\ UNCHANGED <<resends, accepted, late, overlapped>>
  BY DEF Record, history
<1>3. unusual' \in 0..MaxUnusual
  BY <1>2 DEF TypeInv, TypeOK
<1>4. QED
  BY <1>1, <1>2, <1>3, RecordRow, LetsGo DEF Statuses

LEMMA ThrowsRow ==
  ASSUME TypeInv, Throws
  PROVE  /\ phase \in Holding
         /\ \E s \in {"FAILED", "PENDING"}, n \in 0..(MaxAttempts + 1) :
              RowIs(current.id, s, n, FALSE) /\ (n > MaxAttempts => s = "FAILED")
<1>1. phase \in Holding /\ Fails(current)
  BY DEF Throws, Holding
<1>2. QED
  BY <1>1, InHandType, FailsRow

LEMMA ThrowsType == TypeInv /\ Throws => TypeInv'
<1> SUFFICES ASSUME TypeInv, Throws PROVE TypeInv'
  OBVIOUS
<1>1. PICK s \in {"FAILED", "PENDING"}, n \in 0..(MaxAttempts + 1) :
        RowIs(current.id, s, n, FALSE) /\ (n > MaxAttempts => s = "FAILED")
  BY ThrowsRow
<1>2. GoesOn /\ left' \subseteq left /\ UNCHANGED <<resends, accepted, late, overlapped>>
  BY DEF Throws, QueuesAgain
<1>3. unusual' \in 0..MaxUnusual
  BY UnusualCounts DEF Throws, TypeInv
<1>4. QED
  BY <1>1, <1>2, <1>3, ThrowsRow, LetsGo DEF Statuses

\* A write that leaves the worker where it is.
LEMMA WriteType ==
  ASSUME TypeInv, NEW d \in DOMAIN digests, NEW s \in Statuses, NEW n \in 0..(MaxAttempts + 1),
         NEW o \in BOOLEAN, RowIs(d, s, n, o),
         o => s \in {"PROCESSING", "OUTCOME_UNKNOWN"},
         n > MaxAttempts => s \in {"FAILED", "SENT"} /\ n = digests[d].attempts,
         UNCHANGED <<scheduler, worker, enabled, period, resends, accepted, late, overlapped>>,
         unknowns' \subseteq unknowns, left' \subseteq left, unusual' \in 0..MaxUnusual,
         hook' \in [Hooks -> [step : {"idle", "resolve", "suppress"}, id : Ids,
                              event : Events, was : Statuses]],
         \A h \in Hooks : hook'[h] = hook[h] \/ hook'[h].step # "resolve",
         \A h \in Hooks : hook'[h].was = "OUTCOME_UNKNOWN" =>
           hook[h].was = "OUTCOME_UNKNOWN" /\ hook'[h].id = hook[h].id,
         admin' \in [Admins -> AdminRecord],
         \A b \in Admins : \/ admin'[b] = admin[b]
                           \/ /\ admin'[b].step = "idle"
                              /\ admin[b].step \in Holding \cup {"resend"},
         \A b \in Admins : admin[b].step \in Holding /\ admin'[b] = admin[b] => admin[b].id # d
  PROVE  TypeInv'
<1> USE DEF worker
<1>1. n \in Nat /\ n <= MaxAttempts + 1 /\ digests[d].attempts \in Nat
  BY RowIds, Constants DEF TypeInv, Digests
<1>2. n > MaxAttempts => \A t \in todo' : t.id # d
  BY <1>1, Constants DEF TypeInv, Listed
<1>3. Rows' /\ Places' /\ Listed' /\ Waits' /\ Fresh' /\ Known'
  <2>1. phase' = "idle" => todo' = {}
    BY DEF TypeInv, Listed
  <2>2. QED
    BY <1>1, <1>2, <2>1, WriteKeeps
<1>4. TypeOK'
  BY RowType DEF TypeInv, TypeOK, AdminRecord, AdminSteps
<1>5. Held'
  <2>1. current \in Copies => digests'[current.id].attempts <= MaxAttempts
    <3> SUFFICES ASSUME current \in Copies PROVE digests'[current.id].attempts <= MaxAttempts
      OBVIOUS
    <3>1. CASE current.id # d
      BY <3>1 DEF TypeInv, Held, RowIs
    <3>2. CASE current.id = d
      BY <1>1, <3>2, Constants DEF TypeInv, Held, RowIs
    <3>3. QED
      BY <3>1, <3>2
  <2>2. QED
    BY <2>1 DEF TypeInv, Held, RowIs
<1>6. QED
  BY <1>3, <1>4, <1>5 DEF TypeInv

LEMMA RequeueType ==
  ASSUME TypeInv, NEW t \in unknowns, Requeue(t)
  PROVE  TypeInv' /\ \E n \in 0..(MaxAttempts + 1) : RowIs(t.id, "PENDING", n, FALSE)
<1>1. /\ t \in Copies /\ t.id \in DOMAIN digests /\ t.attempts < MaxAttempts /\ t.attempts \in Nat
      /\ \A b \in Admins : admin[b].step \in Holding => admin[b].id # t.id
  BY DEF TypeInv, TypeOK, Waits, Fresh, Mine, Copies
<1>2. t.attempts + 1 \in 0..(MaxAttempts + 1) /\ ~ t.attempts + 1 > MaxAttempts
  BY <1>1, Constants
<1>3. RowIs(t.id, "PENDING", t.attempts + 1, FALSE)
  BY <1>1, <1>2, WritesRow DEF Requeue, Statuses
<1>4. UNCHANGED <<enabled, period, scheduler, admin, worker, hook, unusual, resends, accepted, late, overlapped>>
      /\ unknowns' \subseteq unknowns /\ left' \subseteq left
  BY DEF Requeue, QueuesAgain
<1>5. /\ unusual' \in 0..MaxUnusual /\ admin' \in [Admins -> AdminRecord]
      /\ hook' \in [Hooks -> [step : {"idle", "resolve", "suppress"}, id : Ids,
                              event : Events, was : Statuses]]
  BY <1>4, AdminType DEF TypeInv, TypeOK
<1>6. QED
  BY <1>1, <1>2, <1>3, <1>4, <1>5, WriteType DEF Statuses

\* A write of one field leaves the others as they are.
LEMMA FieldRow ==
  ASSUME TypeInv, NEW d \in DOMAIN digests, NEW n \in 0..(MaxAttempts + 1), NEW o \in BOOLEAN,
         \/ digests' = [digests EXCEPT ![d].attempts = n] /\ o = digests[d].old
         \/ digests' = [digests EXCEPT ![d].old = o] /\ n = digests[d].attempts
  PROVE  RowIs(d, digests[d].status, n, o)
<1>1. digests \in [1..Len(digests) -> Digests] /\ d \in 1..Len(digests) /\ Len(digests) \in Nat
  BY RowIds DEF TypeInv, Rows
<1>2. /\ digests' \in [1..Len(digests) -> Digests]
      /\ digests'[d].status = digests[d].status
      /\ digests'[d].attempts = n /\ digests'[d].old = o
      /\ \A e \in 1..Len(digests) : e # d => digests'[e] = digests[e]
      /\ digests'[d].jobs = digests[d].jobs /\ digests'[d].source = digests[d].source
  <2>1. CASE digests' = [digests EXCEPT ![d].attempts = n] /\ o = digests[d].old
    BY ONLY <1>1, <2>1, n \in 0..(MaxAttempts + 1) DEF Digests
  <2>2. CASE digests' = [digests EXCEPT ![d].old = o] /\ n = digests[d].attempts
    BY ONLY <1>1, <2>2, o \in BOOLEAN DEF Digests
  <2>3. QED
    BY <2>1, <2>2
<1>3. digests' \in Seq(Digests) /\ Len(digests') = Len(digests) /\ DOMAIN digests' = 1..Len(digests)
  BY <1>1, <1>2
<1>4. QED
  BY <1>1, <1>2, <1>3 DEF RowIs

LEMMA RowFacts ==
  ASSUME TypeInv, NEW d \in DOMAIN digests
  PROVE  /\ digests[d].status \in Statuses /\ digests[d].old \in BOOLEAN
         /\ digests[d].attempts \in 0..(MaxAttempts + 1) /\ d \in Ids
         /\ digests[d].old => digests[d].status \in {"PROCESSING", "OUTCOME_UNKNOWN"}
         /\ digests[d].attempts > MaxAttempts => digests[d].status \in {"FAILED", "SENT"}
BY RowIds DEF TypeInv, TypeOK, Rows, Digests

LEMMA ExhaustType ==
  ASSUME TypeInv, NEW t \in unknowns, Exhaust(t)
  PROVE  TypeInv' /\ RowIs(t.id, digests[t.id].status, MaxAttempts, digests[t.id].old)
<1>1. /\ t.id \in DOMAIN digests
      /\ \A b \in Admins : admin[b].step \in Holding => admin[b].id # t.id
  BY DEF TypeInv, Waits, Fresh, Mine
<1>2. MaxAttempts \in 0..(MaxAttempts + 1) /\ ~ MaxAttempts > MaxAttempts
  BY Constants
<1>3. RowIs(t.id, digests[t.id].status, MaxAttempts, digests[t.id].old)
  BY <1>1, <1>2, FieldRow, RowFacts DEF Exhaust
<1>4. UNCHANGED <<enabled, period, scheduler, admin, worker, hook, unusual, resends, accepted, late, overlapped>>
      /\ unknowns' \subseteq unknowns /\ left' \subseteq left
  BY DEF Exhaust, history
<1>5. /\ unusual' \in 0..MaxUnusual /\ admin' \in [Admins -> AdminRecord]
      /\ hook' \in [Hooks -> [step : {"idle", "resolve", "suppress"}, id : Ids,
                              event : Events, was : Statuses]]
  BY <1>4, AdminType DEF TypeInv, TypeOK
<1>6. QED
  BY <1>1, <1>2, <1>3, <1>4, <1>5, RowFacts, WriteType

LEMMA GetsOldRow ==
  ASSUME TypeInv, NEW d \in DOMAIN digests, GetsOld(d)
  PROVE  /\ RowIs(d, digests[d].status, digests[d].attempts, TRUE)
         /\ digests[d].status \in {"PROCESSING", "OUTCOME_UNKNOWN"}
         /\ digests[d].status = "PROCESSING" => ~InHand(d)
<1>1. digests[d].status \in {"PROCESSING", "OUTCOME_UNKNOWN"}
      /\ (digests[d].status = "PROCESSING" => ~InHand(d))
  BY DEF GetsOld, In
<1>2. RowIs(d, digests[d].status, digests[d].attempts, TRUE)
  BY FieldRow, RowFacts DEF GetsOld
<1>3. QED
  BY <1>1, <1>2

LEMMA GetsOldType ==
  ASSUME TypeInv, NEW d \in DOMAIN digests, GetsOld(d)
  PROVE  TypeInv'
<1>1. \A b \in Admins : admin[b].step \in Holding => admin[b].id # d
  BY GetsOldRow DEF InHand, Holding, TypeInv, Fresh
<1>2. UNCHANGED <<enabled, period, scheduler, admin, worker, unknowns, hook, unusual, history>>
  BY DEF GetsOld
<1>3. /\ unusual' \in 0..MaxUnusual /\ admin' \in [Admins -> AdminRecord]
      /\ hook' \in [Hooks -> [step : {"idle", "resolve", "suppress"}, id : Ids,
                              event : Events, was : Statuses]]
  BY <1>2, AdminType DEF TypeInv, TypeOK
<1>4. digests[d].attempts > MaxAttempts => digests[d].status \in {"FAILED", "SENT"}
  BY RowFacts
<1>5. UNCHANGED <<scheduler, worker, enabled, period, resends, accepted, late, overlapped>>
      /\ unknowns' \subseteq unknowns /\ left' \subseteq left
      /\ hook' = hook /\ admin' = admin
  BY <1>2 DEF history
<1>6. /\ digests[d].status \in Statuses /\ digests[d].attempts \in 0..(MaxAttempts + 1)
      /\ RowIs(d, digests[d].status, digests[d].attempts, TRUE)
      /\ digests[d].status \in {"PROCESSING", "OUTCOME_UNKNOWN"}
  BY GetsOldRow, RowFacts
<1>7. digests[d].attempts > MaxAttempts => FALSE
  BY <1>4, <1>6
<1>8. QED
  BY <1>1, <1>3, <1>5, <1>6, <1>7, WriteType

LEMMA HookResolvesRow ==
  ASSUME TypeInv, NEW h \in Hooks, HookResolves(h)
  PROVE  /\ hook[h].id \in DOMAIN digests
         /\ \/ digests' = digests
            \/ /\ hook[h].was = "OUTCOME_UNKNOWN"
               /\ \E s \in {"SENT", "FAILED"} :
                    RowIs(hook[h].id, s, digests[hook[h].id].attempts, FALSE)
<1>1. hook[h].id \in DOMAIN digests
  BY DEF HookResolves, TypeInv, Known
<1>2. \/ digests' = digests
      \/ /\ hook[h].was = "OUTCOME_UNKNOWN"
         /\ \E s \in {"SENT", "FAILED"} : Turns(hook[h].id, s)
  BY DEF HookResolves
<1>3. QED
  BY <1>1, <1>2, TurnsRow DEF Statuses

LEMMA HookResolvesType ==
  ASSUME TypeInv, NEW h \in Hooks, HookResolves(h)
  PROVE  TypeInv'
<1>1. /\ UNCHANGED <<enabled, period, scheduler, admin, worker, unknowns, unusual, history>>
      /\ hook' \in [Hooks -> [step : {"idle", "resolve", "suppress"}, id : Ids,
                              event : Events, was : Statuses]]
      /\ \A g \in Hooks : hook'[g] = hook[g] \/ hook'[g].step # "resolve"
      /\ \A g \in Hooks : hook'[g].was = "OUTCOME_UNKNOWN" =>
           hook[g].was = "OUTCOME_UNKNOWN" /\ hook'[g].id = hook[g].id
  <2> DEFINE HookRecord == [step : {"idle", "resolve", "suppress"}, id : Ids, event : Events, was : Statuses]
  <2>1. UNCHANGED <<enabled, period, scheduler, admin, worker, unknowns, unusual, history>>
    BY DEF HookResolves
  <2>2. hook \in [Hooks -> HookRecord]
    BY DEF TypeInv, TypeOK
  <2>3. CASE hook' = [hook EXCEPT ![h] = NoEvent]
    <3>1. NoEvent \in HookRecord /\ NoEvent.step # "resolve" /\ NoEvent.was # "OUTCOME_UNKNOWN"
      BY Nothing
    <3>2. QED
      BY ONLY <2>1, <2>2, <2>3, <3>1
  <2>4. CASE hook' = [hook EXCEPT ![h].step = "suppress"]
    BY ONLY <2>1, <2>2, <2>4
  <2>5. QED
    BY <2>3, <2>4 DEF HookResolves
<1>2. unusual' \in 0..MaxUnusual /\ admin' \in [Admins -> AdminRecord]
  BY <1>1, AdminType DEF TypeInv, TypeOK
<1>3. CASE digests' = digests
  <2>1. TypeOK'
    BY <1>1, <1>3 DEF TypeInv, TypeOK, worker, history
  <2>2. Places'
    BY <1>1, <1>3, PlacesSame DEF TypeInv
  <2>3. Rows' /\ Listed' /\ Held' /\ Waits'
    BY <1>1, <1>3 DEF TypeInv, Rows, Listed, Held, Waits, worker
  <2>4. Fresh' /\ Known'
    BY <1>1, <1>3 DEF TypeInv, Fresh, Mine, Known, worker, history
  <2>5. QED
    BY <2>1, <2>2, <2>3, <2>4 DEF TypeInv
<1>4. ASSUME hook[h].was = "OUTCOME_UNKNOWN", NEW s \in {"SENT", "FAILED"},
             RowIs(hook[h].id, s, digests[hook[h].id].attempts, FALSE)
      PROVE  TypeInv'
  <2>1. \A b \in Admins : admin[b].step \in Holding => admin[b].id # hook[h].id
    BY <1>4 DEF TypeInv, Fresh, Mine
  <2>2. UNCHANGED <<scheduler, worker, enabled, period, resends, accepted, late, overlapped>>
        /\ unknowns' \subseteq unknowns /\ left' \subseteq left /\ admin' = admin
    BY <1>1 DEF history
  <2>3. /\ hook[h].id \in DOMAIN digests /\ s \in Statuses /\ s \in {"SENT", "FAILED"}
        /\ digests[hook[h].id].attempts \in 0..(MaxAttempts + 1)
    BY HookResolvesRow, RowFacts DEF Statuses
  <2>4. QED
    BY <1>1, <1>2, <1>4, <2>1, <2>2, <2>3, WriteType
<1>5. QED
  BY <1>3, <1>4, HookResolvesRow

LEMMA NowRecordsRow ==
  ASSUME TypeInv, NEW a \in Admins, NowRecords(a)
  PROVE  /\ admin[a].step = "record" /\ admin[a].step \in Holding /\ admin[a].id \in DOMAIN digests
         /\ \E s \in {"SKIPPED", "OUTCOME_UNKNOWN", "FAILED", "SENT"}, n \in 0..1 :
              RowIs(admin[a].id, s, n, FALSE)
<1>1. /\ admin[a].step = "record" /\ admin[a].step \in Holding
      /\ admin[a].id \in DOMAIN digests /\ digests[admin[a].id].attempts = 0
      /\ admin[a].result \in Results
  BY DEF NowRecords, Holding, TypeInv, Fresh
<1>2. CASE admin[a].result = "failed"
  <2>1. Writes(admin[a].id, "FAILED", 1)
    BY <1>2 DEF NowRecords
  <2>2. 1 \in 0..(MaxAttempts + 1) /\ 1 \in 0..1
    BY Constants
  <2>3. QED
    BY <1>1, <2>1, <2>2, WritesRow DEF Statuses
<1>3. CASE admin[a].result # "failed"
  <2>1. PICK s \in {"SKIPPED", "OUTCOME_UNKNOWN", "SENT"} : Turns(admin[a].id, s)
    BY <1>1, <1>3 DEF NowRecords, Results
  <2>2. RowIs(admin[a].id, s, 0, FALSE)
    BY <1>1, <2>1, TurnsRow DEF Statuses
  <2>3. 0 \in 0..1
    OBVIOUS
  <2>4. QED
    BY <1>1, <2>2, <2>3
<1>4. QED
  BY <1>2, <1>3

LEMMA NowRecordsType ==
  ASSUME TypeInv, NEW a \in Admins, NowRecords(a)
  PROVE  TypeInv'
<1>1. PICK s \in {"SKIPPED", "OUTCOME_UNKNOWN", "FAILED", "SENT"}, n \in 0..1 :
        RowIs(admin[a].id, s, n, FALSE)
  BY NowRecordsRow
<1>2. n \in 0..(MaxAttempts + 1) /\ ~ n > MaxAttempts
  BY Constants
<1>3. /\ UNCHANGED <<enabled, period, scheduler, worker, unknowns, hook, unusual, history>>
      /\ admin' = [admin EXCEPT ![a] = NoAdmin]
  BY DEF NowRecords
<1>4. /\ unusual' \in 0..MaxUnusual /\ admin' \in [Admins -> AdminRecord]
      /\ hook' \in [Hooks -> [step : {"idle", "resolve", "suppress"}, id : Ids,
                              event : Events, was : Statuses]]
      /\ admin'[a].step = "idle" /\ \A b \in Admins : b # a => admin'[b] = admin[b]
  BY <1>3, Nothing, AdminType DEF TypeInv, TypeOK, AdminRecord, AdminSteps
<1>5. \A b \in Admins : admin[b].step \in Holding /\ b # a => admin[b].id # admin[a].id
  BY NowRecordsRow DEF TypeInv, Fresh, Mine
<1>6. admin'[a] # admin[a]
  BY <1>4, NowRecordsRow
<1>7. UNCHANGED <<scheduler, worker, enabled, period, resends, accepted, late, overlapped>>
      /\ unknowns' \subseteq unknowns /\ left' \subseteq left /\ hook' = hook
  BY <1>3 DEF history
<1>8. /\ admin[a].id \in DOMAIN digests /\ s \in Statuses
      /\ admin[a].step \in Holding
  BY NowRecordsRow DEF Statuses
<1>9. QED
  BY <1>1, <1>2, <1>4, <1>5, <1>6, <1>7, <1>8, WriteType

LEMMA ResendWritesType ==
  ASSUME TypeInv, NEW a \in Admins, ResendWrites(a)
  PROVE  TypeInv' /\ resends' # 0 /\ RowIs(admin[a].id, "PENDING", 0, FALSE)
<1>1. /\ admin[a].step = "resend" /\ admin[a].id \in DOMAIN digests
      /\ \A b \in Admins : admin[b].step \in Holding => admin[b].id # admin[a].id
  BY DEF ResendWrites, TypeInv, Known, Fresh, Mine, Holding
<1>2. 0 \in 0..(MaxAttempts + 1) /\ ~ 0 > MaxAttempts
  BY Constants
<1>3. RowIs(admin[a].id, "PENDING", 0, FALSE)
  BY <1>1, <1>2, WritesRow DEF ResendWrites, Statuses
<1>4. /\ UNCHANGED <<enabled, period, scheduler, worker, unknowns, hook, unusual, accepted, late,
                     overlapped>>
      /\ admin' = [admin EXCEPT ![a] = NoAdmin] /\ resends' = resends + 1 /\ left' \subseteq left
  BY DEF ResendWrites, QueuesAgain
<1>5. /\ unusual' \in 0..MaxUnusual /\ admin' \in [Admins -> AdminRecord]
      /\ hook' \in [Hooks -> [step : {"idle", "resolve", "suppress"}, id : Ids,
                              event : Events, was : Statuses]]
      /\ admin'[a].step = "idle" /\ \A b \in Admins : b # a => admin'[b] = admin[b]
      /\ resends' \in Nat /\ resends' # 0
  BY <1>4, Nothing, AdminType DEF TypeInv, TypeOK, AdminRecord, AdminSteps
<1>6. todo' = todo /\ current' = current /\ phase' = phase /\ result' = result
  BY <1>4 DEF worker
<1>7. Rows' /\ Places' /\ Listed' /\ Waits' /\ Fresh' /\ Known'
  <2>1. phase' = "idle" => todo' = {}
    BY <1>6 DEF TypeInv, Listed
  <2>2. 0 \in Nat /\ hook' = hook /\ unknowns' \subseteq unknowns /\ scheduler' = scheduler
    BY <1>4
  <2>3. QED
    BY <1>1, <1>2, <1>3, <1>4, <1>5, <1>6, <2>1, <2>2, WriteKeeps
<1>8. TypeOK'
  BY <1>1, <1>2, <1>3, <1>4, <1>5, <1>6, RowType DEF TypeInv, TypeOK, AdminRecord, AdminSteps
<1>9. Held'
  <2>1. current \in Copies => digests'[current.id].attempts <= MaxAttempts
    <3> SUFFICES ASSUME current \in Copies PROVE digests'[current.id].attempts <= MaxAttempts
      OBVIOUS
    <3>1. CASE current.id # admin[a].id
      BY <1>3, <3>1 DEF TypeInv, Held, RowIs
    <3>2. CASE current.id = admin[a].id
      BY <1>3, <3>2, Constants DEF RowIs
    <3>3. QED
      BY <3>1, <3>2
  <2>2. QED
    BY <1>3, <1>6, <2>1 DEF TypeInv, Held, RowIs
<1>10. QED
  BY <1>3, <1>5, <1>7, <1>8, <1>9 DEF TypeInv

----------------------------------------------------------------------------
(* Steps that create a digest.                                             *)

\* The new row is nobody's yet.
LEMMA NewRow ==
  ASSUME TypeInv, Len(digests) + 1 <= MaxDigests,
         NEW s \in Statuses, NEW source \in Sources, NEW jobs \in SUBSET Jobs,
         digests' = NewDigest(s, source, jobs)
  PROVE  /\ digests' \in Seq(Digests) /\ Len(digests') = Len(digests) + 1
         /\ DOMAIN digests' = DOMAIN digests \cup {Len(digests) + 1}
         /\ Len(digests) + 1 \in Ids /\ Len(digests) + 1 \notin DOMAIN digests
         /\ \A e \in DOMAIN digests : digests'[e] = digests[e]
         /\ digests'[Len(digests) + 1].status = s /\ digests'[Len(digests) + 1].attempts = 0
         /\ digests'[Len(digests) + 1].old = FALSE /\ digests'[Len(digests) + 1].source = source
         /\ digests'[Len(digests) + 1].jobs = jobs
         /\ \A e \in DOMAIN digests' : digests'[e] \in Digests
<1> DEFINE row == [status |-> s, attempts |-> 0, source |-> source, period |-> period,
                   jobs |-> jobs, old |-> FALSE]
<1>1. row \in Digests
  BY Constants DEF Digests, TypeInv, TypeOK
<1>2. digests \in Seq(Digests) /\ DOMAIN digests = 1..Len(digests) /\ Len(digests) \in Nat
  BY RowIds DEF TypeInv, Rows
<1>3. digests' = Append(digests, row)
  BY DEF NewDigest
<1> HIDE DEF row
<1>4. /\ digests' \in Seq(Digests) /\ Len(digests') = Len(digests) + 1
      /\ \A e \in 1..Len(digests) : digests'[e] = digests[e]
      /\ digests'[Len(digests) + 1] = row
  BY <1>1, <1>2, <1>3
<1>5. DOMAIN digests' = 1..(Len(digests) + 1) /\ \A e \in 1..(Len(digests) + 1) : digests'[e] \in Digests
  BY <1>2, <1>4
<1>6. 1..(Len(digests) + 1) = 1..Len(digests) \cup {Len(digests) + 1}
      /\ Len(digests) + 1 \notin 1..Len(digests) /\ Len(digests) + 1 \in 1..MaxDigests
  BY <1>2, Constants
<1>7. QED
  BY <1>2, <1>4, <1>5, <1>6 DEF row, Ids

LEMMA NewKeeps ==
  ASSUME TypeInv, Len(digests) + 1 <= MaxDigests,
         NEW s \in Statuses, NEW source \in Sources, NEW jobs \in SUBSET Jobs,
         digests' = NewDigest(s, source, jobs),
         UNCHANGED <<worker, unknowns, hook, resends, accepted, left, late>>
  PROVE  Rows' /\ Listed' /\ Held' /\ Waits'
<1>1. /\ digests' \in Seq(Digests) /\ DOMAIN digests' = DOMAIN digests \cup {Len(digests) + 1}
      /\ \A e \in DOMAIN digests : digests'[e] = digests[e]
      /\ digests'[Len(digests) + 1].attempts = 0
  BY NewRow
<1>2. ~ 0 > MaxAttempts
  BY Constants
<1>3. Rows'
  BY <1>1, <1>2 DEF TypeInv, Rows
<1>4. Listed' /\ Held' /\ Waits'
  BY <1>1 DEF TypeInv, Listed, Held, Waits, worker
<1>5. QED
  BY <1>3, <1>4

LEMMA SchedulerWritesType ==
  ASSUME TypeInv, scheduler.step # "idle",
         NEW s \in Statuses, NEW jobs \in SUBSET Jobs, digests' = NewDigest(s, "SCHEDULER", jobs),
         scheduler' = [step |-> "idle", jobs |-> {}],
         UNCHANGED <<enabled, period, admin, worker, unknowns, hook, unusual>>,
         UNCHANGED <<resends, accepted, left, late>>,
         overlapped' \subseteq overlapped \cup {Len(digests) + 1}
  PROVE  TypeInv'
<1>1. Len(digests) + 1 <= MaxDigests /\ "SCHEDULER" \in Sources
  BY RowIds, CreatingFinite, Constants DEF TypeInv, Places, Sources
<1>2. Rows' /\ Listed' /\ Held' /\ Waits'
  BY <1>1, NewKeeps
<1>3. /\ Len(digests') = Len(digests) + 1
      /\ DOMAIN digests' = DOMAIN digests \cup {Len(digests) + 1}
      /\ \A e \in DOMAIN digests : digests'[e] = digests[e]
      /\ digests'[Len(digests) + 1].old = FALSE
      /\ \A e \in DOMAIN digests' : digests'[e] \in Digests
  BY <1>1, NewRow
<1>4. TypeOK'
  <2>1. Len(digests) + 1 \in Ids
    BY <1>1, RowIds, Constants DEF TypeInv, Ids
  <2>2. QED
    BY <1>1, <1>3, <2>1 DEF TypeInv, TypeOK, worker
<1>5. Places'
  <2>1. Creating' = Creating
    BY DEF Creating
  <2>2. QED
    BY <1>3, <2>1, RowIds, CreatingFinite, Constants DEF TypeInv, Places
<1>6. Fresh' /\ Known'
  BY <1>3 DEF TypeInv, Fresh, Mine, Known, worker
<1>7. QED
  BY <1>2, <1>4, <1>5, <1>6 DEF TypeInv

LEMMA SchedulerCreatesType ==
  ASSUME TypeInv, SchedulerCreates \/ SchedulerSkips
  PROVE  TypeInv'
<1>1. scheduler.step # "idle" /\ scheduler.jobs \in SUBSET Jobs
  BY DEF SchedulerCreates, SchedulerSkips, TypeInv, TypeOK
<1>2. \E s \in {"SKIPPED", "PENDING"}, jobs \in SUBSET Jobs :
        digests' = NewDigest(s, "SCHEDULER", jobs)
  BY <1>1 DEF SchedulerCreates, SchedulerSkips
<1>3. /\ scheduler' = [step |-> "idle", jobs |-> {}]
      /\ UNCHANGED <<enabled, period, admin, worker, unknowns, hook, unusual>>
      /\ UNCHANGED <<resends, accepted, left, late>>
      /\ overlapped' \subseteq overlapped \cup {Len(digests) + 1}
  BY DEF SchedulerCreates, SchedulerSkips, Overlapping, history
<1>4. QED
  BY <1>1, <1>2, <1>3, SchedulerWritesType DEF Statuses

LEMMA NowCreatesType ==
  ASSUME TypeInv, NEW a \in Admins, NowCreates(a)
  PROVE  TypeInv'
<1>d. Len(digests) + 1 \in Nat
  BY RowIds DEF TypeInv
<1> PICK d \in Nat : d = Len(digests) + 1
  BY <1>d
<1>0. /\ admin[a].step = "create" /\ admin[a].jobs \in SUBSET Jobs
      /\ digests' = NewDigest("PROCESSING", "ADMIN_MANUAL", admin[a].jobs)
      /\ admin' = [admin EXCEPT ![a].step = "check", ![a].jobs = {}, ![a].id = d]
      /\ UNCHANGED <<enabled, period, scheduler, worker, unknowns, hook, unusual>>
      /\ UNCHANGED <<resends, accepted, left, late>>
      /\ overlapped' \subseteq overlapped \cup {d}
  BY DEF NowCreates, Overlapping, TypeInv, TypeOK
<1>1. d <= MaxDigests /\ Cardinality(Creating') = Cardinality(Creating) - 1
  <2>1. a \in Creating
    BY <1>0 DEF Creating
  <2>2. Creating' = Creating \ {a}
    BY <1>0 DEF Creating, TypeInv, TypeOK
  <2>3. Cardinality(Creating') = Cardinality(Creating) - 1
    BY <2>1, <2>2, CreatingFinite, FS_RemoveElement
  <2>4. Cardinality(Creating) >= 1
    <3>1. Creating # {}
      BY <2>1
    <3>2. Cardinality(Creating) # 0
      BY <3>1, CreatingFinite, FS_EmptySet
    <3>3. QED
      BY <3>2, CreatingFinite
  <2>5. QED
    BY <2>3, <2>4, RowIds, CreatingFinite, Constants DEF TypeInv, Places
<1>2. "PROCESSING" \in Statuses /\ "ADMIN_MANUAL" \in Sources
  BY DEF Statuses, Sources
<1>3. Rows' /\ Listed' /\ Held' /\ Waits'
  BY <1>0, <1>1, <1>2, NewKeeps
<1>4. /\ Len(digests') = Len(digests) + 1 /\ d \in Ids /\ d \notin DOMAIN digests
      /\ DOMAIN digests' = DOMAIN digests \cup {d}
      /\ \A e \in DOMAIN digests : digests'[e] = digests[e]
      /\ digests'[d].old = FALSE /\ digests'[d].status = "PROCESSING" /\ digests'[d].attempts = 0
      /\ \A e \in DOMAIN digests' : digests'[e] \in Digests
  BY <1>0, <1>1, <1>2, NewRow
<1>5. /\ admin' \in [Admins -> AdminRecord] /\ admin'[a].step = "check" /\ admin'[a].id = d
      /\ \A b \in Admins : b # a => admin'[b] = admin[b]
  <2>1. {} \in SUBSET Jobs /\ "check" \in AdminSteps
    BY DEF AdminSteps
  <2>2. admin \in [Admins -> AdminRecord]
    BY AdminType DEF TypeInv
  <2>3. QED
    <3> DEFINE r == [[[admin[a] EXCEPT !.step = "check"] EXCEPT !.jobs = {}] EXCEPT !.id = d]
    <3>1. admin[a] \in AdminRecord
      BY <2>2
    <3>2. r \in AdminRecord /\ r.step = "check" /\ r.id = d
      BY ONLY <1>4, <2>1, <3>1 DEF AdminRecord
    <3>3. admin' = [admin EXCEPT ![a] = r]
      BY <1>0, <2>2
    <3> HIDE DEF r
    <3>4. QED
      BY ONLY <2>2, <3>2, <3>3, a \in Admins
<1>6. TypeOK'
  BY <1>0, <1>1, <1>4, <1>5 DEF TypeInv, TypeOK, AdminRecord, AdminSteps, worker
<1>7. Places'
  BY <1>0, <1>1, <1>4, RowIds, CreatingFinite, Constants DEF TypeInv, Places
<1>8. Fresh'
  <2>1. Mine(a, d)'
    BY <1>0, <1>4, <1>5 DEF TypeInv, Mine, Listed, Waits, Held, Known, Fresh, worker
  <2>2. \A b \in Admins : b # a /\ admin[b].step \in Holding => Mine(b, admin[b].id)'
    BY <1>0, <1>4, <1>5 DEF TypeInv, Mine, Fresh, Known, worker
  <2>3. QED
    BY <1>4, <1>5, <2>1, <2>2 DEF TypeInv, Fresh
<1>9. Known'
  BY <1>0, <1>4, <1>5 DEF TypeInv, Known
<1>10. QED
  BY <1>3, <1>6, <1>7, <1>8, <1>9 DEF TypeInv

----------------------------------------------------------------------------
(* The types hold.                                                         *)

LEMMA TypeInvInit == Init => TypeInv
<1> SUFFICES ASSUME Init PROVE TypeInv
  OBVIOUS
<1> USE DEF Init
<1>1. TypeOK
  <2>1. digests = <<>> /\ Len(digests) = 0 /\ DOMAIN digests = {}
    OBVIOUS
  <2>2. admin \in [Admins -> AdminRecord]
    BY Nothing DEF AdminRecord, AdminSteps
  <2>3. hook \in [Hooks -> [step : {"idle", "resolve", "suppress"}, id : Ids,
                            event : Events, was : Statuses]]
    BY Nothing
  <2>4. period \in 1..MaxPeriods /\ unusual \in 0..MaxUnusual /\ Len(digests) <= MaxDigests
    BY <2>1, Constants
  <2>5. accepted \in [Ids -> Nat]
    OBVIOUS
  <2>6. QED
    BY <2>1, <2>2, <2>3, <2>4, <2>5 DEF TypeOK, AdminRecord, AdminSteps
<1>2. digests \in Seq(Digests) /\ Len(digests) = 0 /\ DOMAIN digests = {}
  OBVIOUS
<1>3. Places
  <2>1. Creating = {}
    BY Nothing DEF Creating
  <2>2. Cardinality(Creating) = 0
    BY <2>1, FS_EmptySet
  <2>3. QED
    BY <1>2, <2>2, Constants DEF Places
<1>4. Rows /\ Listed /\ Held /\ Waits
  BY <1>2, Constants DEF Rows, Listed, Held, Holding, Waits
<1>5. Fresh /\ Known
  BY Nothing DEF Fresh, Known, Holding
<1>6. QED
  BY <1>1, <1>3, <1>4, <1>5 DEF TypeInv

LEMMA TypeInvNext == TypeInv /\ [Next]_vars => TypeInv'
<1> SUFFICES ASSUME TypeInv, [Next]_vars PROVE TypeInv'
  OBVIOUS
<1>1. CASE UNCHANGED vars
  <2> USE <1>1 DEF vars, worker, history, TypeInv
  <2>1. TypeOK'
    BY DEF TypeOK
  <2>2. Places'
    BY PlacesSame
  <2>3. Rows' /\ Listed' /\ Held' /\ Waits'
    BY DEF Rows, Listed, Held, Waits
  <2>4. Fresh' /\ Known'
    BY DEF Fresh, Mine, Known
  <2>5. QED
    BY <2>1, <2>2, <2>3, <2>4
<1>2. CASE Scheduler \/ NextPeriod
  BY <1>2, DiscoverType, SchedulerChoosesType, SchedulerCreatesType, NextPeriodType DEF Scheduler
<1>3. ASSUME NEW a \in Admins,
             Now(a) \/ NowChooses(a) \/ ResendReads(a) \/ ResendWrites(a) \/ AdminDies(a)
      PROVE  TypeInv'
  BY <1>3, NowCreatesType, NowChecksType, NowStopsType, NowSendsType, NowRecordsType,
     NowChoosesType, ResendReadsType, ResendWritesType, AdminDiesType DEF Now
<1>4. CASE Worker \/ WorkerDies
  BY <1>4, TickType, ListType, CheckType, StopType, SendType, RecordType, ThrowsType,
     RecoverType, TakeType, WorkerDiesType DEF Worker
<1>5. CASE Reconciler
  BY <1>5, ListUnknownsType, RequeueType, ExhaustType DEF Reconciler
<1>6. ASSUME NEW h \in Hooks, Hook(h) PROVE TypeInv'
  BY <1>6, HookReadsType, HookResolvesType, HookSuppressesType DEF Hook
<1>7. CASE OptOut \/ OptIn
  BY <1>7, OptOutType, OptInType
<1>8. ASSUME NEW d \in DOMAIN digests, GetsOld(d) PROVE TypeInv'
  BY <1>8, GetsOldType
<1>9. QED
  BY <1>1, <1>2, <1>3, <1>4, <1>5, <1>6, <1>7, <1>8 DEF Next

LEMMA TypeInvHolds == Spec => []TypeInv
<1>1. QED
  BY TypeInvInit, TypeInvNext, PTL DEF Spec

(* Every variable keeps its type: no digest counts more attempts than one  *)
(* past the budget, and the scheduler and the requests find room for what  *)
(* they create.                                                            *)
THEOREM TypeCorrect == Spec => []TypeOK
<1>1. TypeInv => TypeOK
  BY DEF TypeInv
<1>2. QED
  BY <1>1, TypeInvHolds, PTL

----------------------------------------------------------------------------
(* Until the administration resends a digest, nobody queues one again that *)
(* another has in hand.                                                    *)

CleanInv == resends = 0 => Apart /\ NotLeft

LEMMA CleanInvInit == Init => CleanInv
BY Constants, Nothing DEF Init, CleanInv, Apart, NotLeft, Holding

\* What a step does that writes no digest and gives nothing to the provider.
Quiet ==
  /\ UNCHANGED <<digests, todo, current, unknowns, left, accepted, resends>>
  /\ \/ phase' = phase /\ result' = result
     \/ phase = "check" /\ phase' = "send"
     \/ phase = "check" /\ phase' = "record"
  /\ \A a \in Admins : admin'[a].step \in {"check", "send"} =>
       admin[a].step \in {"check", "send"} /\ admin'[a].id = admin[a].id

LEMMA QuietStep ==
  ASSUME TypeInv,
         \/ Discover \/ SchedulerChooses \/ NextPeriod
         \/ \E a \in Admins : \/ NowChooses(a) \/ NowChecks(a) \/ NowStops(a)
                              \/ ResendReads(a) \/ AdminDies(a)
         \/ Check \/ Stop
         \/ \E h \in Hooks : \/ \E d \in DOMAIN digests, e \in Events : HookReads(h, d, e)
                             \/ HookSuppresses(h)
         \/ OptOut \/ OptIn
         \/ UNCHANGED vars
  PROVE  Quiet
<1> USE DEF TypeInv, TypeOK, worker, history
<1>1. CASE Discover \/ SchedulerChooses \/ NextPeriod \/ OptOut \/ OptIn \/ UNCHANGED vars
  BY <1>1 DEF Discover, SchedulerChooses, NextPeriod, OptOut, OptIn, vars, Quiet
<1>2. CASE Check \/ Stop
  BY <1>2 DEF Check, Stop, Quiet
<1>3. ASSUME NEW h \in Hooks,
             \/ \E d \in DOMAIN digests, e \in Events : HookReads(h, d, e)
             \/ HookSuppresses(h)
      PROVE  Quiet
  BY <1>3 DEF HookReads, HookSuppresses, Quiet
<1>4. ASSUME NEW a \in Admins,
             NowChooses(a) \/ NowChecks(a) \/ NowStops(a) \/ ResendReads(a) \/ AdminDies(a)
      PROVE  Quiet
  <2>1. CASE NowChooses(a)
    <3>1. Chosen \in SUBSET Jobs /\ "create" \in AdminSteps
      BY DEF Chosen, NotIncluded, AdminSteps
    <3>2. admin' = [admin EXCEPT ![a].step = "create", ![a].jobs = Chosen]
          /\ UNCHANGED <<digests, worker, unknowns, left, accepted, resends>>
      BY <2>1 DEF NowChooses
    <3>3. admin'[a].step = "create" /\ \A b \in Admins : b # a => admin'[b] = admin[b]
      BY <3>1, <3>2, SetsJobs
    <3>4. QED
      BY <3>2, <3>3 DEF Quiet
  <2>2. CASE NowChecks(a)
    BY <2>2 DEF NowChecks, Quiet
  <2>3. CASE NowStops(a)
    BY <2>3 DEF NowStops, Quiet
  <2>4. CASE ResendReads(a)
    BY <2>4 DEF ResendReads, Quiet
  <2>5. CASE AdminDies(a)
    BY <2>5, Nothing DEF AdminDies, Quiet
  <2>6. QED
    BY <1>4, <2>1, <2>2, <2>3, <2>4, <2>5
<1>5. QED
  BY <1>1, <1>2, <1>3, <1>4

LEMMA QuietClean ==
  ASSUME Apart, NotLeft, Quiet
  PROVE  Apart' /\ NotLeft' /\ accepted' = accepted
BY DEF Apart, NotLeft, Holding, Quiet

LEMMA WorkerListsClean ==
  ASSUME TypeInv, Apart, NotLeft, Tick \/ List \/ WorkerDies \/ ListUnknowns
  PROVE  Apart' /\ NotLeft' /\ accepted' = accepted
<1> USE DEF history
<1>1. CASE Tick
  <2>1. \A t \in todo' : t.id \in DOMAIN digests /\ digests[t.id].status = "PROCESSING"
                         /\ digests[t.id].old
    BY <1>1, CopyType DEF Tick, In
  <2>2. current \notin Copies
    BY <1>1 DEF Tick, TypeInv, Held, Holding
  <2>3. QED
    BY <1>1, <2>1, <2>2 DEF Tick, Apart, NotLeft, Holding
<1>2. CASE List
  <2>1. PICK first \in SUBSET In("PENDING") : todo' = {Copy(d) : d \in first}
    BY <1>2 DEF List
  <2>2. \A t \in todo' : t.id \in DOMAIN digests /\ digests[t.id].status = "PENDING"
    BY <2>1, CopyType DEF In
  <2>3. current \notin Copies
    BY <1>2 DEF List, TypeInv, Held, Holding
  <2>4. phase' \in {"idle", "next"}
        /\ UNCHANGED <<digests, admin, current, result, unknowns, left, accepted>>
    BY <1>2 DEF List
  <2>5. QED
    BY <2>2, <2>3, <2>4 DEF Apart, NotLeft, Holding
<1>3. CASE WorkerDies
  BY <1>3, Constants DEF WorkerDies, Apart, NotLeft, Holding
<1>4. CASE ListUnknowns
  <2>1. \A t \in unknowns' : t.id \in DOMAIN digests /\ digests[t.id].status = "OUTCOME_UNKNOWN"
    BY <1>4, CopyType DEF ListUnknowns, In
  <2>2. UNCHANGED <<digests, admin, worker, left, accepted>>
    BY <1>4 DEF ListUnknowns
  <2>3. QED
    BY <2>1, <2>2 DEF Apart, NotLeft, worker
<1>5. QED
  BY <1>1, <1>2, <1>3, <1>4

\* Only a send reaches the provider, and what it sends did not leave before.
LEMMA SendClean ==
  ASSUME TypeInv, Apart, NotLeft, Send
  PROVE  Apart' /\ NotLeft' /\ \A d \in left : accepted'[d] = accepted[d]
<1>1. PICK answer \in Results \ {"skipped"} :
        Hands(current.id, answer) /\ result' = answer
  BY DEF Send, Outcome
<1>2. /\ phase = "send" /\ phase' = "record" /\ phase \in Holding
      /\ UNCHANGED <<digests, admin, todo, current, unknowns>>
  BY DEF Send, Holding
<1>3. /\ current \in Copies /\ current.id \in DOMAIN digests /\ current.id \in Ids
      /\ \A t \in todo : t.id # current.id
      /\ \A a \in Admins : admin[a].step \in Holding => admin[a].id # current.id
  BY <1>2, InHandType DEF TypeInv, Held, Fresh, Mine
<1>4. /\ \A e \in Ids : e # current.id => accepted'[e] = accepted[e]
      /\ left \subseteq left' /\ left' \subseteq left \cup {current.id}
      /\ answer = "failed" => left' = left
      /\ left \subseteq Ids
  BY <1>1, <1>3, HandsType DEF TypeInv, TypeOK
<1>5. current.id \notin left
  BY <1>2 DEF NotLeft
<1>6. digests[current.id].status # "PENDING"
  BY <1>3 DEF Apart
<1>7. Apart'
  BY <1>2 DEF Apart
<1>8. NotLeft'
  <2>1. \A d \in DOMAIN digests : digests[d].status = "PENDING" => d \notin left'
    BY <1>4, <1>6 DEF NotLeft
  <2>2. \A t \in todo : t.id \notin left'
    BY <1>2, <1>3, <1>4 DEF NotLeft
  <2>3. \A a \in Admins : admin[a].step \in {"check", "send"} => admin[a].id \notin left'
    BY <1>3, <1>4 DEF NotLeft, Holding
  <2>4. result' \in {"failed", "skipped"} => current.id \notin left'
    BY <1>1, <1>4, <1>5
  <2>5. QED
    BY <1>2, <2>1, <2>2, <2>3, <2>4 DEF NotLeft, Holding
<1>9. QED
  BY <1>4, <1>5, <1>7, <1>8

LEMMA NowSendsClean ==
  ASSUME TypeInv, Apart, NotLeft, NEW a \in Admins, NowSends(a)
  PROVE  Apart' /\ NotLeft' /\ \A d \in left : accepted'[d] = accepted[d]
<1>1. PICK answer \in Results \ {"skipped"} :
        /\ Hands(admin[a].id, answer)
        /\ admin' = [admin EXCEPT ![a].step = "record", ![a].result = answer]
  BY DEF NowSends, Outcome
<1>2. /\ admin[a].step = "send" /\ admin[a].step \in Holding
      /\ UNCHANGED <<digests, worker, unknowns>>
  BY DEF NowSends, Holding
<1> DEFINE d == admin[a].id
<1>3. /\ d \in DOMAIN digests /\ d \in Ids /\ digests[d].status = "PROCESSING"
      /\ \A t \in todo : t.id # d
      /\ current \in Copies => current.id # d
      /\ \A b \in Admins : b # a /\ admin[b].step \in Holding => admin[b].id # d
  BY <1>2, RowFacts DEF TypeInv, Fresh, Mine
<1>4. /\ \A e \in Ids : e # d => accepted'[e] = accepted[e]
      /\ left \subseteq left' /\ left' \subseteq left \cup {d} /\ left \subseteq Ids
  BY <1>1, <1>3, HandsType DEF TypeInv, TypeOK
<1>5. d \notin left
  BY <1>2 DEF NotLeft
<1>6. /\ admin'[a].step = "record"
      /\ \A b \in Admins : b # a => admin'[b] = admin[b]
  BY <1>1 DEF TypeInv, TypeOK
<1> HIDE DEF d
<1>7. Apart'
  BY <1>2 DEF Apart, worker
<1>8. NotLeft'
  <2>1. \A e \in DOMAIN digests : digests[e].status = "PENDING" => e \notin left'
    BY <1>3, <1>4 DEF NotLeft
  <2>2. phase \in Holding \cup {"next"} => \A t \in todo : t.id \notin left'
    BY <1>3, <1>4 DEF NotLeft
  <2>3. \A b \in Admins : admin'[b].step \in {"check", "send"} => admin'[b].id \notin left'
    BY <1>3, <1>4, <1>6 DEF NotLeft, Holding
  <2>4. phase \in Holding => (current.id \notin left => current.id \notin left')
    BY <1>3, <1>4 DEF TypeInv, Held
  <2>5. QED
    BY <1>2, <2>1, <2>2, <2>3, <2>4 DEF NotLeft, worker, Holding
<1>9. QED
  BY <1>4, <1>5, <1>7, <1>8

LEMMA CreatesClean ==
  ASSUME TypeInv, Apart, NotLeft,
         SchedulerCreates \/ SchedulerSkips \/ \E a \in Admins : NowCreates(a)
  PROVE  Apart' /\ NotLeft' /\ accepted' = accepted
<1>1. PICK s \in Statuses, source \in Sources, jobs \in SUBSET Jobs :
        digests' = NewDigest(s, source, jobs)
  BY DEF SchedulerCreates, SchedulerSkips, NowCreates, TypeInv, TypeOK, Statuses, Sources
<1>2. UNCHANGED <<worker, unknowns, left, accepted>>
  BY DEF SchedulerCreates, SchedulerSkips, NowCreates, history
<1>3. Len(digests) + 1 <= MaxDigests
  <2>1. CASE SchedulerCreates \/ SchedulerSkips
    BY <2>1, RowIds, CreatingFinite, Constants
       DEF SchedulerCreates, SchedulerSkips, TypeInv, Places
  <2>2. ASSUME NEW a \in Admins, NowCreates(a) PROVE Len(digests) + 1 <= MaxDigests
    <3>1. Creating # {}
      BY <2>2 DEF NowCreates, Creating
    <3>2. Cardinality(Creating) # 0
      BY <3>1, CreatingFinite, FS_EmptySet
    <3>3. Cardinality(Creating) >= 1
      BY <3>2, CreatingFinite
    <3>4. QED
      BY <3>3, RowIds, CreatingFinite, Constants DEF TypeInv, Places
  <2>3. QED
    BY <2>1, <2>2
<1>4. /\ \A e \in DOMAIN digests : digests'[e] = digests[e]
      /\ DOMAIN digests' = DOMAIN digests \cup {Len(digests) + 1}
      /\ Len(digests) + 1 \notin DOMAIN digests /\ Len(digests) + 1 \notin left
  BY <1>1, <1>3, NewRow DEF TypeInv, Known
<1>5. Apart'
  BY <1>2, <1>4 DEF Apart, TypeInv, Listed, Held, Waits, worker
<1>6. \A a \in Admins : admin'[a].step \in {"check", "send"} => admin'[a].id \notin left
  <2>1. CASE SchedulerCreates \/ SchedulerSkips
    BY <2>1 DEF SchedulerCreates, SchedulerSkips, NotLeft
  <2>2. ASSUME NEW a \in Admins, NowCreates(a)
        PROVE  \A b \in Admins : admin'[b].step \in {"check", "send"} => admin'[b].id \notin left
    <3>1. admin'[a].id = Len(digests) + 1 /\ \A b \in Admins : b # a => admin'[b] = admin[b]
      BY ONLY <2>2, AdminType, a \in Admins, TypeInv
         DEF TypeInv, NowCreates, AdminRecord
    <3>2. QED
      BY <1>4, <3>1 DEF NotLeft
  <2>3. QED
    BY <2>1, <2>2
<1>7. NotLeft'
  BY <1>2, <1>4, <1>6 DEF NotLeft, worker
<1>8. QED
  BY <1>2, <1>5, <1>7

\* A write to a digest that the worker neither lists nor has in hand.
LEMMA WriteClean ==
  ASSUME TypeInv, Apart, NotLeft, NEW d \in DOMAIN digests, NEW s, NEW n, NEW o, RowIs(d, s, n, o),
         UNCHANGED <<worker, accepted>>, unknowns' \subseteq unknowns, left' \subseteq left,
         s = "PENDING" => d \notin left',
         \A t \in todo : t.id # d \/ s \in {"PENDING", "PROCESSING", "SENT", "FAILED"},
         current \in Copies =>
           current.id # d \/ (s \in {"PROCESSING", "SENT", "FAILED"} /\ ~o),
         \A t \in unknowns' : t.id # d \/ s \in {"OUTCOME_UNKNOWN", "SENT", "FAILED"},
         \A b \in Admins : admin'[b] = admin[b] \/ admin'[b].step = "idle"
  PROVE  Apart' /\ NotLeft'
<1> USE DEF worker
<1>1. Apart'
  BY DEF Apart, RowIs, TypeInv, Listed, Held, Waits
<1>2. NotLeft'
  BY DEF NotLeft, RowIs
<1>3. QED
  BY <1>1, <1>2

LEMMA NowRecordsClean ==
  ASSUME TypeInv, Apart, NotLeft, NEW a \in Admins, NowRecords(a)
  PROVE  Apart' /\ NotLeft' /\ accepted' = accepted
<1>1. PICK s \in {"SKIPPED", "OUTCOME_UNKNOWN", "FAILED", "SENT"}, n \in 0..1 :
        RowIs(admin[a].id, s, n, FALSE)
  BY NowRecordsRow
<1>2. /\ UNCHANGED <<worker, accepted>> /\ unknowns' \subseteq unknowns /\ left' \subseteq left
      /\ \A b \in Admins : admin'[b] = admin[b] \/ admin'[b].step = "idle"
  BY Nothing DEF NowRecords, history, TypeInv, TypeOK
<1>3. /\ admin[a].id \in DOMAIN digests
      /\ \A t \in todo : t.id # admin[a].id
      /\ current \in Copies => current.id # admin[a].id
      /\ \A t \in unknowns' : t.id # admin[a].id
  BY <1>2, NowRecordsRow DEF TypeInv, Fresh, Mine
<1>4. QED
  BY <1>1, <1>2, <1>3, WriteClean

LEMMA RequeueClean ==
  ASSUME TypeInv, Apart, NotLeft, NEW t \in unknowns, Requeue(t) \/ Exhaust(t)
  PROVE  Apart' /\ NotLeft' /\ accepted' = accepted
<1>1. /\ t.id \in DOMAIN digests
      /\ \A u \in todo : u.id # t.id
      /\ current \in Copies => current.id # t.id
      /\ digests[t.id].status \in {"OUTCOME_UNKNOWN", "SENT", "FAILED"}
  BY DEF TypeInv, Waits, Apart
<1>2. CASE Requeue(t)
  <2>1. PICK n \in 0..(MaxAttempts + 1) : RowIs(t.id, "PENDING", n, FALSE)
    BY <1>2, RequeueType
  <2>2. /\ UNCHANGED <<worker, accepted, admin>> /\ unknowns' = unknowns \ {t}
        /\ left' = left \ {t.id}
    BY <1>2 DEF Requeue, QueuesAgain
  <2>3. \A u \in unknowns' : u.id # t.id
    BY <2>2 DEF TypeInv, Waits
  <2>4. QED
    BY <1>1, <2>1, <2>2, <2>3, WriteClean
<1>3. CASE Exhaust(t)
  <2>1. RowIs(t.id, digests[t.id].status, MaxAttempts, digests[t.id].old)
    BY <1>3, ExhaustType
  <2>2. UNCHANGED <<worker, accepted, admin>> /\ unknowns' \subseteq unknowns /\ left' \subseteq left
    BY <1>3 DEF Exhaust, history
  <2>3. QED
    BY <1>1, <2>1, <2>2, WriteClean
<1>4. QED
  BY <1>2, <1>3

LEMMA HookResolvesClean ==
  ASSUME TypeInv, Apart, NotLeft, NEW h \in Hooks, HookResolves(h)
  PROVE  Apart' /\ NotLeft' /\ accepted' = accepted
<1>1. UNCHANGED <<worker, accepted, admin, unknowns, left>>
  BY DEF HookResolves, history
<1>2. CASE digests' = digests
  BY <1>1, <1>2 DEF Apart, NotLeft, worker
<1>3. ASSUME NEW s \in {"SENT", "FAILED"},
             RowIs(hook[h].id, s, digests[hook[h].id].attempts, FALSE)
      PROVE  Apart' /\ NotLeft' /\ accepted' = accepted
  <2>1. /\ hook[h].id \in DOMAIN digests /\ unknowns' \subseteq unknowns /\ left' \subseteq left
        /\ s # "PENDING" /\ \A b \in Admins : admin'[b] = admin[b]
        /\ UNCHANGED <<worker, accepted>>
    BY <1>1, <1>3, HookResolvesRow
  <2>2. \E d \in DOMAIN digests : RowIs(d, s, digests[d].attempts, FALSE)
    BY <1>3, <2>1
  <2>3. PICK d \in DOMAIN digests : RowIs(d, s, digests[d].attempts, FALSE)
    BY <2>2
  <2>4. Apart' /\ NotLeft'
    BY <2>1, <2>3, WriteClean
  <2>5. QED
    BY <1>1, <2>4
<1>4. QED
  BY <1>2, <1>3, HookResolvesRow

LEMMA GetsOldClean ==
  ASSUME TypeInv, Apart, NotLeft, NEW d \in DOMAIN digests, GetsOld(d)
  PROVE  Apart' /\ NotLeft' /\ accepted' = accepted
<1>1. UNCHANGED <<worker, accepted, admin, unknowns, left>>
  BY DEF GetsOld, history
<1>2. /\ RowIs(d, digests[d].status, digests[d].attempts, TRUE)
      /\ digests[d].status \in {"PROCESSING", "OUTCOME_UNKNOWN"}
  BY GetsOldRow
<1>3. current \in Copies => current.id # d
  BY <1>2, GetsOldRow, Constants DEF InHand, Apart
<1>4. /\ \A t \in todo : t.id # d \/ digests[d].status = "PROCESSING"
      /\ \A t \in unknowns' : t.id # d \/ digests[d].status = "OUTCOME_UNKNOWN"
  BY <1>1, <1>2 DEF Apart
<1>5. Apart'
  BY <1>1, <1>2, <1>3, <1>4 DEF Apart, RowIs, TypeInv, Listed, Held, Waits, worker
<1>6. NotLeft'
  BY <1>1, <1>2 DEF NotLeft, RowIs, worker
<1>7. QED
  BY <1>1, <1>5, <1>6

\* The worker writes to what it listed or has in hand.
LEMMA RecoverClean ==
  ASSUME TypeInv, Apart, NotLeft, NEW t \in todo, Recover(t)
  PROVE  Apart' /\ NotLeft' /\ accepted' = accepted
<1>1. t \in Copies /\ t.id \in DOMAIN digests /\ t.attempts <= MaxAttempts
  BY DEF TypeInv, TypeOK, Listed
<1>2. PICK s \in {"FAILED", "PENDING"}, n \in 0..(MaxAttempts + 1) : RowIs(t.id, s, n, FALSE)
  BY <1>1, FailsRow DEF Recover
<1>3. /\ phase = "recover" /\ todo' = todo \ {t} /\ left' = left \ {t.id}
      /\ UNCHANGED <<admin, phase, current, result, unknowns, accepted>>
  BY DEF Recover, QueuesAgain
<1>4. /\ current' \notin Copies
      /\ \A u \in todo' : u.id # t.id
      /\ \A u \in unknowns' : u.id # t.id
  BY <1>3 DEF TypeInv, Held, Holding, Listed, Apart
<1>5. Apart'
  BY <1>1, <1>2, <1>3, <1>4 DEF Apart, RowIs, TypeInv, Listed, Waits
<1>6. NotLeft'
  BY <1>2, <1>3 DEF NotLeft, RowIs, Holding
<1>7. QED
  BY <1>3, <1>5, <1>6

LEMMA TakeClean ==
  ASSUME TypeInv, Apart, NotLeft, NEW t \in todo, Take(t)
  PROVE  Apart' /\ NotLeft' /\ accepted' = accepted
<1>1. t \in Copies /\ t.id \in DOMAIN digests
  BY DEF TypeInv, TypeOK, Listed
<1>2. RowIs(t.id, "PROCESSING", digests[t.id].attempts, FALSE)
  BY <1>1, TurnsRow DEF Take, Statuses
<1>3. /\ phase = "next" /\ phase' = "check" /\ todo' = todo \ {t} /\ current' = t
      /\ UNCHANGED <<admin, unknowns, left, accepted>>
  BY DEF Take, history
<1>4. /\ \A u \in todo' : u.id # t.id
      /\ \A u \in unknowns' : u.id # t.id
  BY <1>3 DEF TypeInv, Listed, Apart
<1>5. Apart'
  BY <1>1, <1>2, <1>3, <1>4 DEF Apart, RowIs, TypeInv, Listed, Waits
<1>6. NotLeft'
  BY <1>2, <1>3 DEF NotLeft, RowIs, Holding
<1>7. QED
  BY <1>3, <1>5, <1>6

LEMMA LetsGoClean ==
  ASSUME TypeInv, Apart, NotLeft, phase \in Holding, NEW s, NEW n,
         RowIs(current.id, s, n, FALSE), GoesOn, left' \subseteq left,
         s = "PENDING" => current.id \notin left'
  PROVE  Apart' /\ NotLeft'
<1>1. current \in Copies /\ current.id \in DOMAIN digests
      /\ \A t \in todo : t.id # current.id
  BY DEF TypeInv, Held
<1>2. /\ current' \notin Copies /\ todo' = todo /\ phase' \in {"idle", "next"}
      /\ UNCHANGED <<admin, unknowns>>
  BY Constants DEF GoesOn
<1>3. Apart'
  BY <1>1, <1>2 DEF Apart, RowIs, TypeInv, Listed, Waits
<1>4. NotLeft'
  BY <1>1, <1>2 DEF NotLeft, RowIs, Holding
<1>5. QED
  BY <1>3, <1>4

LEMMA RecordClean ==
  ASSUME TypeInv, Apart, NotLeft, Record \/ Throws
  PROVE  Apart' /\ NotLeft' /\ accepted' = accepted
<1>1. CASE Record
  <2>1. PICK s, n : RowIs(current.id, s, n, FALSE) /\ (s = "PENDING" => result = "failed")
    BY <1>1, RecordRow
  <2>2. GoesOn /\ left' = left /\ accepted' = accepted /\ phase \in Holding /\ phase = "record"
    BY <1>1, RecordRow DEF Record, history
  <2>3. result = "failed" => current.id \notin left'
    BY <2>2 DEF NotLeft
  <2>4. QED
    BY <2>1, <2>2, <2>3, LetsGoClean
<1>2. CASE Throws
  <2>1. PICK s, n : RowIs(current.id, s, n, FALSE)
    BY <1>2, ThrowsRow
  <2>2. GoesOn /\ left' = left \ {current.id} /\ accepted' = accepted /\ phase \in Holding
    BY <1>2, ThrowsRow DEF Throws, QueuesAgain
  <2>3. QED
    BY <2>1, <2>2, LetsGoClean
<1>3. QED
  BY <1>1, <1>2

\* Only resendDigest counts as a resend.
LEMMA ResendsCount ==
  ASSUME [Next]_vars, \A a \in Admins : ~ResendWrites(a)
  PROVE  resends' = resends
<1> USE DEF history
<1>1. CASE UNCHANGED vars
  BY <1>1 DEF vars
<1>2. CASE Scheduler \/ NextPeriod
  BY <1>2 DEF Scheduler, Discover, SchedulerChooses, SchedulerSkips, SchedulerCreates, NextPeriod
<1>3. ASSUME NEW a \in Admins, Now(a) \/ NowChooses(a) \/ ResendReads(a) \/ AdminDies(a)
      PROVE  resends' = resends
  BY <1>3 DEF Now, NowCreates, NowChecks, NowStops, NowSends, Hands, NowRecords, NowChooses,
              ResendReads, AdminDies
<1>4. CASE Worker \/ WorkerDies
  BY <1>4 DEF Worker, Tick, List, Check, Stop, Send, Hands, Record, Throws, Recover, Take,
              WorkerDies
<1>5. CASE Reconciler
  BY <1>5 DEF Reconciler, ListUnknowns, Requeue, Exhaust
<1>6. ASSUME NEW h \in Hooks, Hook(h) PROVE resends' = resends
  BY <1>6 DEF Hook, HookReads, HookResolves, HookSuppresses
<1>7. CASE OptOut \/ OptIn
  BY <1>7 DEF OptOut, OptIn
<1>8. ASSUME NEW d \in DOMAIN digests, GetsOld(d) PROVE resends' = resends
  BY <1>8 DEF GetsOld
<1>9. QED
  BY <1>1, <1>2, <1>3, <1>4, <1>5, <1>6, <1>7, <1>8 DEF Next

LEMMA CleanNext ==
  ASSUME TypeInv, CleanInv, [Next]_vars
  PROVE  CleanInv' /\ (resends = 0 => \A d \in left : accepted'[d] = accepted[d])
<1>1. ASSUME NEW a \in Admins, ResendWrites(a)
      PROVE  CleanInv' /\ accepted' = accepted
  BY <1>1, ResendWritesType DEF CleanInv, ResendWrites
<1>2. ASSUME \A a \in Admins : ~ResendWrites(a)
      PROVE  CleanInv' /\ (resends = 0 => \A d \in left : accepted'[d] = accepted[d])
  <2> SUFFICES ASSUME resends = 0
      PROVE  Apart' /\ NotLeft' /\ \A d \in left : accepted'[d] = accepted[d]
    BY <1>2, ResendsCount DEF CleanInv
  <2>0. Apart /\ NotLeft
    BY DEF CleanInv
  <2>1. CASE UNCHANGED vars
    BY <2>0, <2>1, QuietStep, QuietClean
  <2>2. CASE Scheduler \/ NextPeriod
    BY <2>0, <2>2, QuietStep, QuietClean, CreatesClean DEF Scheduler
  <2>3. ASSUME NEW a \in Admins, Now(a) \/ NowChooses(a) \/ ResendReads(a) \/ AdminDies(a)
        PROVE  Apart' /\ NotLeft' /\ \A d \in left : accepted'[d] = accepted[d]
    BY <2>0, <2>3, QuietStep, QuietClean, CreatesClean, NowSendsClean, NowRecordsClean DEF Now
  <2>4. CASE Worker \/ WorkerDies
    BY <2>0, <2>4, WorkerListsClean, QuietStep, QuietClean, SendClean, RecordClean, RecoverClean,
       TakeClean DEF Worker
  <2>5. CASE Reconciler
    BY <2>0, <2>5, WorkerListsClean, RequeueClean DEF Reconciler
  <2>6. ASSUME NEW h \in Hooks, Hook(h)
        PROVE  Apart' /\ NotLeft' /\ \A d \in left : accepted'[d] = accepted[d]
    BY <2>0, <2>6, QuietStep, QuietClean, HookResolvesClean DEF Hook
  <2>7. CASE OptOut \/ OptIn
    BY <2>0, <2>7, QuietStep, QuietClean
  <2>8. ASSUME NEW d \in DOMAIN digests, GetsOld(d)
        PROVE  Apart' /\ NotLeft' /\ \A e \in left : accepted'[e] = accepted[e]
    BY <2>0, <2>8, GetsOldClean
  <2>9. QED
    BY <1>2, <2>1, <2>2, <2>3, <2>4, <2>5, <2>6, <2>7, <2>8 DEF Next
<1>3. QED
  BY <1>1, <1>2

(* Whatever interleaves, a digest the provider took goes out again only    *)
(* after the recovery, the reconciler or the worker queued it again.       *)
THEOREM RepeatsHaveACause == Spec => EveryRepeatHasACause
<1> DEFINE Kept == resends = 0 => \A d \in left : accepted'[d] = accepted[d]
<1>1. Init => TypeInv /\ CleanInv
  BY TypeInvInit, CleanInvInit
<1>2. TypeInv /\ CleanInv /\ [Next]_vars => (TypeInv /\ CleanInv)'
  BY TypeInvNext, CleanNext
<1>3. TypeInv /\ CleanInv /\ [Next]_vars => [Kept]_vars
  BY CleanNext
<1>4. QED
  BY <1>1, <1>2, <1>3, PTL DEF Spec, EveryRepeatHasACause
----------------------------------------------------------------------------
(* An opt-out stops everything but what was already past its check.        *)

Sending == {a \in Admins : admin[a].step = "send"}

OptInv ==
  /\ enabled => late = 0
  /\ ~enabled =>
       late + Cardinality(Sending) + (IF phase = "send" THEN 1 ELSE 0) <= 1 + Cardinality(Admins)

LEMMA SendingFinite ==
  /\ IsFiniteSet(Sending) /\ Cardinality(Sending) \in Nat /\ Cardinality(Admins) \in Nat
  /\ Cardinality(Sending) <= Cardinality(Admins)
<1>1. IsFiniteSet(Admins) /\ Sending \subseteq Admins
  BY DigestAssumption DEF DigestAssumption, Sending
<1>2. QED
  BY <1>1, FS_Subset, FS_CardinalityType

LEMMA SendingShrinks ==
  ASSUME \A a \in Admins : admin'[a].step = "send" => admin[a].step = "send"
  PROVE  Cardinality(Sending') <= Cardinality(Sending) /\ Cardinality(Sending') \in Nat
<1>1. Sending' \subseteq Sending
  BY DEF Sending
<1>2. QED
  BY <1>1, SendingFinite, FS_Subset, FS_CardinalityType

\* A step that takes nothing to the provider and lets nobody past a check.
LEMMA SlowOpt ==
  ASSUME TypeInv, OptInv, late' = late, enabled' = enabled,
         phase' = "send" => phase = "send",
         \A a \in Admins : admin'[a].step = "send" => admin[a].step = "send"
  PROVE  OptInv'
<1>1. late \in Nat
  BY DEF TypeInv, TypeOK
<1>2. QED
  BY <1>1, SendingShrinks, SendingFinite DEF OptInv

LEMMA ClosesOpt ==
  ASSUME TypeInv, OptInv, late' = late, enabled' = FALSE, UNCHANGED <<phase, admin>>
  PROVE  OptInv'
<1>1. Sending' = Sending /\ late \in Nat
  BY DEF Sending, TypeInv, TypeOK
<1>2. QED
  BY <1>1, SendingFinite DEF OptInv, TypeInv, TypeOK

LEMMA SendsOpt ==
  ASSUME TypeInv, OptInv, Send \/ \E a \in Admins : NowSends(a)
  PROVE  OptInv'
<1>0. late \in Nat /\ late' \in {late, late + 1} /\ (enabled => late' = late) /\ enabled' = enabled
  BY DEF Send, NowSends, Hands, TypeInv, TypeOK
<1>1. CASE Send
  <2>1. phase = "send" /\ phase' = "record" /\ Sending' = Sending
    BY <1>1 DEF Send, Sending
  <2>2. QED
    BY <1>0, <2>1, SendingFinite DEF OptInv
<1>2. ASSUME NEW a \in Admins, NowSends(a) PROVE OptInv'
  <2>1. a \in Sending /\ Sending' = Sending \ {a} /\ phase' = phase
    BY <1>2 DEF NowSends, Sending, TypeInv, TypeOK, worker
  <2>2. Cardinality(Sending') = Cardinality(Sending) - 1
    BY <2>1, SendingFinite, FS_RemoveElement
  <2>3. QED
    BY <1>0, <2>1, <2>2, SendingFinite DEF OptInv
<1>3. QED
  BY <1>1, <1>2

LEMMA OptInit == Init => OptInv
<1> SUFFICES ASSUME Init PROVE OptInv
  OBVIOUS
<1>1. late = 0 /\ phase = "idle" /\ Sending = {}
  BY Nothing DEF Init, Sending
<1>2. QED
  BY <1>1, SendingFinite DEF OptInv

LEMMA OptNext ==
  ASSUME TypeInv, OptInv, [Next]_vars
  PROVE  OptInv'
<1> USE DEF worker, history
<1>1. CASE UNCHANGED vars
  BY <1>1, SlowOpt DEF vars
<1>2. CASE Scheduler \/ NextPeriod
  <2>1. UNCHANGED <<late, enabled, phase, admin>>
    BY <1>2 DEF Scheduler, Discover, SchedulerChooses, SchedulerSkips, SchedulerCreates, NextPeriod
  <2>2. QED
    BY <2>1, SlowOpt
<1>3. ASSUME NEW a \in Admins,
             \/ NowCreates(a) \/ NowStops(a) \/ NowRecords(a) \/ NowChooses(a)
             \/ ResendReads(a) \/ ResendWrites(a) \/ AdminDies(a)
      PROVE  OptInv'
  <2>0. admin \in [Admins -> AdminRecord]
    BY AdminType DEF TypeInv
  <2>1. UNCHANGED <<late, enabled, phase>>
    BY <1>3 DEF NowCreates, NowStops, NowRecords, NowChooses, ResendReads, ResendWrites, AdminDies
  <2>2. \A b \in Admins : admin'[b].step = "send" => admin[b].step = "send"
    <3>1. CASE NowCreates(a)
      <4>1. admin' = [admin EXCEPT ![a].step = "check", ![a].jobs = {}, ![a].id = Len(digests) + 1]
        BY <3>1 DEF NowCreates
      <4>2. QED
        BY ONLY <2>0, <4>1, a \in Admins DEF AdminRecord
    <3>2. CASE NowStops(a)
      <4>1. PICK r : admin' = [admin EXCEPT ![a].step = "record", ![a].result = r]
        BY <3>2 DEF NowStops
      <4>2. QED
        BY ONLY <2>0, <4>1, a \in Admins DEF AdminRecord
    <3>3. CASE NowChooses(a)
      <4>1. PICK j : admin' = [admin EXCEPT ![a].step = "create", ![a].jobs = j]
        BY <3>3 DEF NowChooses
      <4>2. QED
        BY ONLY <2>0, <4>1, a \in Admins DEF AdminRecord
    <3>4. CASE ResendReads(a)
      <4>1. PICK d : admin' = [admin EXCEPT ![a].step = "resend", ![a].id = d]
        BY <3>4 DEF ResendReads
      <4>2. QED
        BY ONLY <2>0, <4>1, a \in Admins DEF AdminRecord
    <3>5. CASE NowRecords(a) \/ ResendWrites(a) \/ AdminDies(a)
      <4>1. admin' = [admin EXCEPT ![a] = NoAdmin]
        BY <3>5 DEF NowRecords, ResendWrites, AdminDies
      <4>2. QED
        BY <2>0, <4>1, Nothing
    <3>6. QED
      BY <1>3, <3>1, <3>2, <3>3, <3>4, <3>5
  <2>3. QED
    BY <2>1, <2>2, SlowOpt
<1>4. ASSUME NEW a \in Admins, NowChecks(a) PROVE OptInv'
  BY <1>4 DEF NowChecks, StillWanted, OptInv
<1>5. CASE Send \/ \E a \in Admins : NowSends(a)
  BY <1>5, SendsOpt
<1>6. CASE Check
  BY <1>6 DEF Check, StillWanted, OptInv
<1>7. CASE \/ Tick \/ List \/ Stop \/ Record \/ Throws \/ WorkerDies
           \/ \E t \in todo : Recover(t) \/ Take(t)
  <2>1. UNCHANGED <<late, enabled, admin>> /\ (phase' = "send" => phase = "send")
    BY <1>7 DEF Tick, List, Stop, Record, Throws, GoesOn, WorkerDies, Recover, Take
  <2>2. QED
    BY <2>1, SlowOpt
<1>8. CASE Reconciler
  BY <1>8, SlowOpt DEF Reconciler, ListUnknowns, Requeue, Exhaust
<1>9. ASSUME NEW h \in Hooks, Hook(h) PROVE OptInv'
  BY <1>9, SlowOpt, ClosesOpt DEF Hook, HookReads, HookResolves, HookSuppresses
<1>10. CASE OptOut
  BY <1>10, ClosesOpt DEF OptOut
<1>11. CASE OptIn
  BY <1>11 DEF OptIn, OptInv
<1>12. ASSUME NEW d \in DOMAIN digests, GetsOld(d) PROVE OptInv'
  BY <1>12, SlowOpt DEF GetsOld
<1>13. QED
  BY <1>1, <1>2, <1>3, <1>4, <1>5, <1>6, <1>7, <1>8, <1>9, <1>10, <1>11, <1>12
     DEF Next, Now, Worker

(* After an opt-out or a bounce, the provider takes at most the digest the *)
(* worker and each request had in hand, however many wait.                 *)
THEOREM OptOutIsRespected == Spec => []OptOutRespected
<1>1. Init => TypeInv /\ OptInv
  BY TypeInvInit, OptInit
<1>2. TypeInv /\ OptInv /\ [Next]_vars => (TypeInv /\ OptInv)'
  BY TypeInvNext, OptNext
<1>3. TypeInv /\ OptInv => OptOutRespected
  <2> SUFFICES ASSUME TypeInv, OptInv PROVE OptOutRespected
    OBVIOUS
  <2>1. late \in Nat /\ enabled \in BOOLEAN
    BY DEF TypeInv, TypeOK
  <2>2. QED
    BY <2>1, SendingFinite DEF OptInv, OptOutRespected
<1>4. QED
  BY <1>1, <1>2, <1>3, PTL DEF Spec
----------------------------------------------------------------------------
(* A job is repeated only by two choices that overlapped.                  *)

\* What a choice can have missed: the digests created since, and there only
\* those that were created while it was pending.
Unseen(jobs) ==
  \A d \in DOMAIN digests : digests[d].jobs \cap jobs # {} => d \in overlapped
UnseenByItself(jobs) ==
  \A d \in DOMAIN digests : digests[d].source = "SCHEDULER" => digests[d].jobs \cap jobs = {}

NewsInv ==
  /\ NothingRepeated
  /\ scheduler.step = "create" => Unseen(scheduler.jobs) /\ UnseenByItself(scheduler.jobs)
  /\ \A a \in Admins : admin[a].step = "create" => Unseen(admin[a].jobs)

\* The digests keep their jobs and nobody chooses.
LEMMA OldNews ==
  ASSUME NewsInv, DOMAIN digests' = DOMAIN digests,
         \A d \in DOMAIN digests :
           digests'[d].jobs = digests[d].jobs /\ digests'[d].source = digests[d].source,
         overlapped' = overlapped,
         scheduler'.step = "create" => scheduler' = scheduler,
         \A a \in Admins : admin'[a].step = "create" => admin'[a] = admin[a]
  PROVE  NewsInv'
BY DEF NewsInv, NothingRepeated, Repeats, Unseen, UnseenByItself

LEMMA ChosenUnseen == Unseen(Chosen) /\ UnseenByItself(Chosen)
BY DEF Unseen, UnseenByItself, Chosen, NotIncluded

\* The digest a choice ends with.
LEMMA CreatedNews ==
  ASSUME TypeInv, NewsInv, Len(digests) + 1 <= MaxDigests,
         NEW s \in Statuses, NEW source \in Sources, NEW jobs \in SUBSET Jobs,
         digests' = NewDigest(s, source, jobs),
         Unseen(jobs), source = "SCHEDULER" => UnseenByItself(jobs),
         overlapped \subseteq overlapped'
  PROVE  /\ NothingRepeated'
         /\ \A js \in SUBSET Jobs :
              Unseen(js) /\ (Len(digests) + 1 \in overlapped' \/ js = {}) => Unseen(js)'
<1>1. /\ DOMAIN digests' = DOMAIN digests \cup {Len(digests) + 1}
      /\ Len(digests) + 1 \notin DOMAIN digests
      /\ \A e \in DOMAIN digests : digests'[e] = digests[e]
      /\ digests'[Len(digests) + 1].source = source
      /\ digests'[Len(digests) + 1].jobs = jobs
  BY NewRow
<1>2. \A d \in DOMAIN digests : d < Len(digests) + 1
  BY RowIds DEF TypeInv
<1>3. ASSUME NEW d \in DOMAIN digests', NEW e \in DOMAIN digests', Repeats(d, e)'
      PROVE  /\ d \in overlapped'
             /\ "ADMIN_MANUAL" \in {digests'[d].source, digests'[e].source}
  <2>1. d \in DOMAIN digests /\ digests'[d] = digests[d]
    <3>1. CASE d = Len(digests) + 1
      <4>1. e \in DOMAIN digests \/ e = d
        BY <1>1, <3>1
      <4>2. ~(d < e)
        BY <1>2, <3>1, <4>1, RowIds DEF TypeInv
      <4>3. QED
        BY <1>3, <4>2 DEF Repeats
    <3>2. QED
      BY <1>1, <3>1
  <2>2. CASE e \in DOMAIN digests
    <3>1. Repeats(d, e)
      BY <1>1, <1>3, <2>1, <2>2 DEF Repeats
    <3>2. QED
      BY <1>1, <2>1, <2>2, <3>1 DEF NewsInv, NothingRepeated
  <2>3. CASE e = Len(digests) + 1
    <3>1. digests[d].jobs \cap jobs # {} /\ digests'[e].source = source
      BY <1>1, <1>3, <2>1, <2>3 DEF Repeats
    <3>2. d \in overlapped
      BY <2>1, <3>1 DEF Unseen
    <3>3. source = "SCHEDULER" => digests[d].source # "SCHEDULER"
      BY <2>1, <3>1 DEF UnseenByItself
    <3>4. digests[d].source \in Sources
      BY <2>1, RowIds DEF TypeInv, Digests
    <3>5. QED
      BY <2>1, <3>1, <3>2, <3>3, <3>4 DEF Sources
  <2>4. QED
    BY <1>1, <2>2, <2>3
<1>4. QED
  BY <1>1, <1>3 DEF NothingRepeated, Unseen

LEMMA SchedulerNews ==
  ASSUME TypeInv, NewsInv, Scheduler \/ NextPeriod
  PROVE  NewsInv'
<1>1. CASE Discover \/ NextPeriod
  <2>1. UNCHANGED <<digests, admin, overlapped>> /\ (scheduler' = scheduler \/ scheduler'.step = "choose")
    BY <1>1 DEF Discover, NextPeriod, TypeInv, TypeOK, history
  <2>2. QED
    BY <2>1, OldNews
<1>2. CASE SchedulerChooses
  <2>1. UNCHANGED <<digests, admin, overlapped>> /\ scheduler'.jobs = Chosen
    BY <1>2 DEF SchedulerChooses, history
  <2>2. QED
    BY <2>1, ChosenUnseen
       DEF NewsInv, NothingRepeated, Repeats, Unseen, UnseenByItself
<1>3. CASE SchedulerSkips \/ SchedulerCreates
  <2>1. Len(digests) + 1 <= MaxDigests
    BY <1>3, RowIds, CreatingFinite, Constants
       DEF SchedulerSkips, SchedulerCreates, TypeInv, Places
  <2>2. PICK s \in Statuses, jobs \in SUBSET Jobs :
          digests' = NewDigest(s, "SCHEDULER", jobs) /\ Unseen(jobs) /\ UnseenByItself(jobs)
          /\ (jobs # {} => SchedulerCreates)
    <3>1. Unseen({}) /\ UnseenByItself({}) /\ {} \in SUBSET Jobs
      BY DEF Unseen, UnseenByItself
    <3>2. CASE SchedulerSkips \/ scheduler.jobs = {}
      BY <1>3, <3>1, <3>2 DEF SchedulerSkips, SchedulerCreates, Statuses
    <3>3. CASE SchedulerCreates /\ scheduler.jobs # {}
      <4>1. /\ scheduler.jobs \in SUBSET Jobs
            /\ Unseen(scheduler.jobs) /\ UnseenByItself(scheduler.jobs)
        BY <3>3 DEF SchedulerCreates, NewsInv, TypeInv, TypeOK
      <4>2. digests' = NewDigest("PENDING", "SCHEDULER", scheduler.jobs)
        BY <3>3 DEF SchedulerCreates
      <4>3. QED
        BY <3>3, <4>1, <4>2 DEF Statuses
    <3>4. QED
      BY <1>3, <3>2, <3>3
  <2>3. overlapped \subseteq overlapped' /\ scheduler'.step = "idle" /\ admin' = admin
    BY <1>3 DEF SchedulerSkips, SchedulerCreates, Overlapping, history
  <2>4. /\ NothingRepeated'
        /\ \A js \in SUBSET Jobs :
             Unseen(js) /\ (Len(digests) + 1 \in overlapped' \/ js = {}) => Unseen(js)'
    BY <2>1, <2>2, <2>3, CreatedNews DEF Sources
  <2>5. ASSUME NEW a \in Admins, admin[a].step = "create" PROVE Unseen(admin[a].jobs)'
    <3>1. Unseen(admin[a].jobs) /\ admin[a].jobs \in SUBSET Jobs
      BY <2>5 DEF NewsInv, TypeInv, TypeOK
    <3>2. CASE jobs = {}
      <4>1. /\ DOMAIN digests' = DOMAIN digests \cup {Len(digests) + 1}
            /\ \A e \in DOMAIN digests : digests'[e] = digests[e]
            /\ digests'[Len(digests) + 1].jobs = {}
        BY <2>1, <2>2, <3>2, NewRow DEF Sources
      <4>2. QED
        BY <2>3, <3>1, <4>1 DEF Unseen
    <3>3. CASE SchedulerCreates
      <4>1. Creating # {}
        BY <2>5 DEF Creating
      <4>2. Len(digests) + 1 \in overlapped'
        BY <3>3, <4>1 DEF SchedulerCreates, Overlapping
      <4>3. QED
        BY <2>3, <2>4, <3>1, <4>2
    <3>4. QED
      BY <2>2, <3>2, <3>3
  <2>6. QED
    BY <2>3, <2>4, <2>5 DEF NewsInv
<1>4. QED
  BY <1>1, <1>2, <1>3 DEF Scheduler

LEMMA NowCreatesNews ==
  ASSUME TypeInv, NewsInv, NEW a \in Admins, NowCreates(a)
  PROVE  NewsInv'
<1>1. Len(digests) + 1 <= MaxDigests
  <2>1. Creating # {}
    BY DEF NowCreates, Creating
  <2>2. Cardinality(Creating) # 0
    BY <2>1, CreatingFinite, FS_EmptySet
  <2>3. Cardinality(Creating) >= 1
    BY <2>2, CreatingFinite
  <2>4. QED
    BY <2>3, RowIds, CreatingFinite, Constants DEF TypeInv, Places
<1>2. /\ admin[a].jobs \in SUBSET Jobs /\ admin[a].step = "create"
      /\ digests' = NewDigest("PROCESSING", "ADMIN_MANUAL", admin[a].jobs)
      /\ Unseen(admin[a].jobs) /\ scheduler' = scheduler
      /\ Overlapping(Creating # {a} \/ scheduler.step = "create")
  BY DEF NowCreates, TypeInv, TypeOK, NewsInv
<1>3. overlapped \subseteq overlapped'
  BY <1>2 DEF Overlapping
<1>4. /\ NothingRepeated'
      /\ \A js \in SUBSET Jobs :
           Unseen(js) /\ (Len(digests) + 1 \in overlapped' \/ js = {}) => Unseen(js)'
  <2>1. "PROCESSING" \in Statuses /\ "ADMIN_MANUAL" \in Sources
        /\ "ADMIN_MANUAL" # "SCHEDULER"
    BY DEF Statuses, Sources
  <2>2. QED
    BY <1>1, <1>2, <1>3, <2>1, CreatedNews
<1>5. admin'[a].step = "check" /\ \A b \in Admins : b # a => admin'[b] = admin[b]
  <2>1. admin \in [Admins -> AdminRecord]
    BY AdminType DEF TypeInv
  <2>2. admin' = [admin EXCEPT ![a].step = "check", ![a].jobs = {}, ![a].id = Len(digests) + 1]
    BY DEF NowCreates
  <2>3. QED
    BY ONLY <2>1, <2>2, a \in Admins DEF AdminRecord
<1>6. scheduler.step = "create" => Unseen(scheduler.jobs)' /\ UnseenByItself(scheduler.jobs)'
  <2> SUFFICES ASSUME scheduler.step = "create"
               PROVE  Unseen(scheduler.jobs)' /\ UnseenByItself(scheduler.jobs)'
    OBVIOUS
  <2>1. /\ scheduler.jobs \in SUBSET Jobs
        /\ Unseen(scheduler.jobs) /\ UnseenByItself(scheduler.jobs)
    BY DEF NewsInv, TypeInv, TypeOK
  <2>2. Len(digests) + 1 \in overlapped'
    BY <1>2 DEF Overlapping
  <2>3. Unseen(scheduler.jobs)'
    BY <1>2, <1>4, <2>1, <2>2 DEF Unseen
  <2>4. /\ DOMAIN digests' = DOMAIN digests \cup {Len(digests) + 1}
        /\ \A e \in DOMAIN digests : digests'[e] = digests[e]
        /\ digests'[Len(digests) + 1].source = "ADMIN_MANUAL"
    BY <1>1, <1>2, NewRow DEF Sources, Statuses
  <2>5. UnseenByItself(scheduler.jobs)'
    BY <1>2, <2>1, <2>4 DEF UnseenByItself
  <2>6. QED
    BY <2>3, <2>5
<1>7. ASSUME NEW b \in Admins, admin'[b].step = "create" PROVE Unseen(admin[b].jobs)'
  <2>1. b # a /\ admin'[b] = admin[b]
    BY <1>5, <1>7
  <2>2. Unseen(admin[b].jobs) /\ admin[b].jobs \in SUBSET Jobs
    BY <1>7, <2>1 DEF NewsInv, TypeInv, TypeOK
  <2>3. b \in Creating
    BY <1>7, <2>1 DEF Creating
  <2>4. Len(digests) + 1 \in overlapped'
    BY <1>2, <2>1, <2>3 DEF Overlapping
  <2> DEFINE js == admin[b].jobs
  <2>5. js' = js
    BY <2>1
  <2> HIDE DEF js
  <2>6. PICK ks \in SUBSET Jobs : ks = js
    BY <2>2 DEF js
  <2>7. Unseen(ks)'
    BY <1>4, <2>2, <2>4, <2>6 DEF js
  <2>8. QED
    BY <2>5, <2>6, <2>7 DEF js, Unseen
<1>8. QED
  BY <1>2, <1>4, <1>6, <1>7 DEF NewsInv

LEMMA AdminNews ==
  ASSUME TypeInv, NewsInv, NEW a \in Admins,
         \/ NowChooses(a) \/ NowChecks(a) \/ NowStops(a) \/ NowSends(a) \/ NowRecords(a)
         \/ ResendReads(a) \/ ResendWrites(a) \/ AdminDies(a)
  PROVE  NewsInv'
<1>0. admin \in [Admins -> AdminRecord]
  BY AdminType DEF TypeInv
<1>1. CASE NowChooses(a)
  <2>1. admin' = [admin EXCEPT ![a].step = "create", ![a].jobs = Chosen]
        /\ UNCHANGED <<digests, scheduler, overlapped>>
    BY <1>1 DEF NowChooses, history
  <2>2. admin'[a].jobs = Chosen /\ \A b \in Admins : b # a => admin'[b] = admin[b]
    BY ONLY <1>0, <2>1, a \in Admins DEF AdminRecord
  <2>3. QED
    BY <2>1, <2>2, ChosenUnseen
       DEF NewsInv, NothingRepeated, Repeats, Unseen, UnseenByItself
<1>2. CASE NowChecks(a) \/ NowStops(a) \/ NowSends(a) \/ ResendReads(a)
  <2>1. admin'[a].step # "create" /\ \A b \in Admins : b # a => admin'[b] = admin[b]
    <3>1. CASE NowChecks(a)
      <4>1. admin' = [admin EXCEPT ![a].step = "send"]
        BY <3>1 DEF NowChecks
      <4>2. QED
        BY ONLY <1>0, <4>1, a \in Admins DEF AdminRecord
    <3>2. CASE NowStops(a) \/ NowSends(a)
      <4>1. PICK r : admin' = [admin EXCEPT ![a].step = "record", ![a].result = r]
        BY <3>2 DEF NowStops, NowSends
      <4>2. QED
        BY ONLY <1>0, <4>1, a \in Admins DEF AdminRecord
    <3>3. CASE ResendReads(a)
      <4>1. PICK d : admin' = [admin EXCEPT ![a].step = "resend", ![a].id = d]
        BY <3>3 DEF ResendReads
      <4>2. QED
        BY ONLY <1>0, <4>1, a \in Admins DEF AdminRecord
    <3>4. QED
      BY <1>2, <3>1, <3>2, <3>3
  <2>2. UNCHANGED <<digests, scheduler, overlapped>>
    BY <1>2 DEF NowChecks, NowStops, NowSends, ResendReads, Hands, history
  <2>3. QED
    BY <2>1, <2>2, OldNews
<1>3. CASE NowRecords(a) \/ ResendWrites(a) \/ AdminDies(a)
  <2>1. admin' = [admin EXCEPT ![a] = NoAdmin]
        /\ UNCHANGED <<scheduler, overlapped>>
    BY <1>3 DEF NowRecords, ResendWrites, AdminDies, history
  <2>2. \A b \in Admins : admin'[b].step = "create" => admin'[b] = admin[b]
    BY <1>0, <2>1, Nothing
  <2>3. digests' = digests \/ \E s, n : RowIs(admin[a].id, s, n, FALSE)
    BY <1>3, NowRecordsRow, ResendWritesType DEF AdminDies
  <2>4. QED
    BY <2>1, <2>2, <2>3, OldNews DEF RowIs
<1>4. QED
  BY <1>1, <1>2, <1>3

LEMMA OthersRows ==
  ASSUME TypeInv,
         \/ Worker \/ WorkerDies \/ Reconciler \/ OptOut \/ OptIn
         \/ \E h \in Hooks : Hook(h)
         \/ \E d \in DOMAIN digests : GetsOld(d)
  PROVE  digests' = digests \/ \E d, s, n, o : RowIs(d, s, n, o)
<1>1. ASSUME NEW t \in todo, Recover(t) \/ Take(t) PROVE \E d, s, n, o : RowIs(d, s, n, o)
  <2>1. t \in Copies /\ t.id \in DOMAIN digests /\ t.attempts <= MaxAttempts
    BY DEF TypeInv, TypeOK, Listed
  <2>2. QED
    BY <1>1, <2>1, FailsRow, TurnsRow DEF Recover, Take, Statuses
<1>2. CASE Record \/ Throws
  BY <1>2, RecordRow, ThrowsRow
<1>3. ASSUME NEW t \in unknowns, Requeue(t) \/ Exhaust(t) PROVE \E d, s, n, o : RowIs(d, s, n, o)
  BY <1>3, RequeueType, ExhaustType
<1>4. ASSUME NEW h \in Hooks, Hook(h)
      PROVE  digests' = digests \/ \E d, s, n, o : RowIs(d, s, n, o)
  BY <1>4, HookResolvesRow DEF Hook, HookReads, HookSuppresses
<1>5. ASSUME NEW d \in DOMAIN digests, GetsOld(d) PROVE \E e, s, n, o : RowIs(e, s, n, o)
  BY <1>5, GetsOldRow
<1>6. CASE Tick \/ List \/ Check \/ Stop \/ Send \/ WorkerDies \/ ListUnknowns \/ OptOut \/ OptIn
  BY <1>6 DEF Tick, List, Check, Stop, Send, WorkerDies, ListUnknowns, OptOut, OptIn
<1>7. QED
  BY <1>1, <1>2, <1>3, <1>4, <1>5, <1>6 DEF Worker, Reconciler

LEMMA OthersNews ==
  ASSUME TypeInv, NewsInv,
         \/ Worker \/ WorkerDies \/ Reconciler \/ OptOut \/ OptIn
         \/ \E h \in Hooks : Hook(h)
         \/ \E d \in DOMAIN digests : GetsOld(d)
  PROVE  NewsInv'
<1>1. UNCHANGED <<scheduler, admin>>
  BY DEF Worker, WorkerDies, Reconciler, OptOut, OptIn, Hook, GetsOld, Tick, List, Check, Stop,
         Send, Record, Throws, GoesOn, Recover, Take, ListUnknowns, Requeue, Exhaust,
         HookReads, HookResolves, HookSuppresses
<1>2. overlapped' = overlapped
  BY DEF Worker, WorkerDies, Reconciler, OptOut, OptIn, Hook, GetsOld, Tick, List, Check, Stop,
         Send, Hands, Record, Throws, Recover, Take, ListUnknowns, Requeue, Exhaust,
         HookReads, HookResolves, HookSuppresses, history
<1>3. QED
  BY <1>1, <1>2, OthersRows, OldNews DEF RowIs

(* However many requests there are, a job is announced twice only by two   *)
(* choices that overlapped, and never twice by the schedule, whatever      *)
(* became of the first digest.                                             *)
THEOREM NothingIsRepeated == Spec => []NothingRepeated
<1>1. Init => TypeInv /\ NewsInv
  <2> SUFFICES ASSUME Init PROVE NewsInv
    BY TypeInvInit
  <2>1. DOMAIN digests = {}
    BY DEF Init
  <2>2. QED
    BY <2>1 DEF NewsInv, NothingRepeated, Unseen, UnseenByItself
<1>2. TypeInv /\ NewsInv /\ [Next]_vars => (TypeInv /\ NewsInv)'
  <2> SUFFICES ASSUME TypeInv, NewsInv, [Next]_vars PROVE NewsInv'
    BY TypeInvNext
  <2>1. CASE UNCHANGED vars
    BY <2>1, OldNews DEF vars, history
  <2>2. QED
    BY <2>1, SchedulerNews, NowCreatesNews, AdminNews, OthersNews DEF Next, Now
<1>3. NewsInv => NothingRepeated
  BY DEF NewsInv
<1>4. QED
  BY <1>1, <1>2, <1>3, PTL DEF Spec

----------------------------------------------------------------------------
(* The budget of a digest: what the provider took of it, and what it can   *)
(* still take before the next resend, as every copy allows that somebody   *)
(* has read and not used: the reconciler's, which may write it over any    *)
(* later status, the worker's, and the row itself.                         *)

\* Attempts left to a copy once the one it stands for is used.
After(k) == IF k >= MaxAttempts THEN 0 ELSE MaxAttempts - (k + 1)
Greater(a, b) == IF a >= b THEN a ELSE b

\* What the copy of d in a list still allows.
Share(S, d) == IF \E t \in S : t.id = d THEN After((CHOOSE t \in S : t.id = d).attempts) ELSE 0

InHandOf(d) == current # Nobody /\ current.id = d

\* Where d is with the worker, or with a request that has not sent it.
Place(d) ==
  IF InHandOf(d) THEN (IF phase = "record" THEN "spent" ELSE "hand")
  ELSE IF \E t \in todo : t.id = d THEN (IF phase = "recover" THEN "stale" ELSE "listed")
  ELSE IF \E a \in Admins : admin[a].step \in {"check", "send"} /\ admin[a].id = d THEN "asked"
  ELSE "free"

Copied(d) == IF InHandOf(d) THEN After(current.attempts) ELSE Share(todo, d)

\* What a row in status s is good for once nobody has it in hand.
Queued(s, l) == IF s = "PENDING" THEN l + 1 ELSE l

\* The e-mails a digest may still become: l as its row allows, c as the
\* reconciler's copy does and n as the worker's.  Whoever writes last counts,
\* and the reconciler's copy is the row's own while nothing happened to it.
Worth(place, s, l, c, n) ==
  IF place = "hand" THEN c + 1 + Greater(n, Queued(s, l))
  ELSE IF place = "spent" THEN c + Greater(n, Queued(s, l))
  ELSE IF place \in {"listed", "asked"} THEN c + 1 + Greater(n, l)
  ELSE IF s = "PENDING" THEN n + c + Queued(s, l)
  ELSE IF s = "PROCESSING" THEN c + Greater(n, l)
  ELSE IF s = "OUTCOME_UNKNOWN" THEN n + Greater(c, l)
  ELSE n + c

Potential(d) ==
  Worth(Place(d), digests[d].status, After(digests[d].attempts), Share(unknowns, d), Copied(d))

Allowed == MaxAttempts * (1 + resends)

Funded(d) ==
  /\ accepted[d] + Potential(d) <= Allowed
  /\ digests[d].status = "OUTCOME_UNKNOWN" => Place(d) \in {"free", "stale"}

BudgetInv ==
  /\ \A d \in DOMAIN digests : Funded(d)
  /\ \A d \in Ids \ DOMAIN digests : accepted[d] = 0

LEMMA AfterNat == ASSUME NEW k \in Nat PROVE After(k) \in Nat /\ After(k) < MaxAttempts
BY Constants DEF After

\* A failed attempt costs a copy what it stands for.
LEMMA AfterNext ==
  ASSUME NEW k \in Nat
  PROVE  /\ k + 1 < MaxAttempts => After(k + 1) + 1 = After(k)
         /\ After(MaxAttempts) = 0 /\ After(0) + 1 = MaxAttempts
BY Constants DEF After

LEMMA ShareOf ==
  ASSUME NEW S, NEW t \in S, \A u \in S : u.id = t.id => u = t
  PROVE  Share(S, t.id) = After(t.attempts)
<1>1. (CHOOSE u \in S : u.id = t.id) = t
  OBVIOUS
<1>2. QED
  BY <1>1 DEF Share

LEMMA ShareNone == ASSUME NEW S, NEW d, \A t \in S : t.id # d PROVE Share(S, d) = 0
BY DEF Share

LEMMA ShareMinus ==
  ASSUME NEW S, NEW d, NEW t \in S, t.id # d, \A u, v \in S : u.id = v.id => u = v
  PROVE  Share(S \ {t}, d) = Share(S, d)
<1>1. CASE \E u \in S : u.id = d
  <2>1. PICK u \in S : u.id = d
    BY <1>1
  <2>2. Share(S, u.id) = After(u.attempts)
    BY ShareOf
  <2>3. Share(S \ {t}, u.id) = After(u.attempts)
    <3>1. u \in S \ {t} /\ \A v \in S \ {t} : v.id = u.id => v = u
      BY <2>1
    <3>2. QED
      BY <3>1, ShareOf
  <2>4. QED
    BY <2>1, <2>2, <2>3
<1>2. CASE \A u \in S : u.id # d
  BY <1>2, ShareNone
<1>3. QED
  BY <1>1, <1>2

LEMMA ShareNat ==
  ASSUME NEW S \in SUBSET Copies, NEW d
  PROVE  Share(S, d) \in Nat
<1>1. CASE \E u \in S : u.id = d
  <2>1. (CHOOSE u \in S : u.id = d) \in Copies
    BY <1>1
  <2>2. (CHOOSE u \in S : u.id = d).attempts \in Nat
    BY <2>1 DEF Copies
  <2>3. QED
    BY <1>1, <2>2, AfterNat DEF Share
<1>2. QED
  BY <1>1 DEF Share

LEMMA PartsNat ==
  ASSUME TypeInv, NEW d \in DOMAIN digests
  PROVE  /\ After(digests[d].attempts) \in Nat /\ Share(unknowns, d) \in Nat /\ Copied(d) \in Nat
         /\ accepted[d] \in Nat /\ Allowed \in Nat /\ d \in Ids
         /\ digests[d].attempts \in Nat
<1>1. digests[d].attempts \in Nat /\ d \in Ids
  BY RowFacts
<1>2. Share(todo, d) \in Nat /\ Share(unknowns, d) \in Nat
  BY ShareNat DEF TypeInv, TypeOK
<1>3. InHandOf(d) => current.attempts \in Nat
  BY DEF InHandOf, TypeInv, TypeOK, Copies
<1>4. Copied(d) \in Nat
  BY <1>2, <1>3, AfterNat DEF Copied
<1>5. accepted[d] \in Nat /\ Allowed \in Nat
  BY <1>1, Constants DEF TypeInv, TypeOK, Allowed
<1>6. QED
  BY <1>1, <1>2, <1>4, <1>5, AfterNat

LEMMA WorthNat ==
  ASSUME NEW place, NEW s, NEW l \in Nat, NEW c \in Nat, NEW n \in Nat
  PROVE  Worth(place, s, l, c, n) \in Nat
BY DEF Worth, Greater, Queued

\* What the worker has, it has alone; what a request has, nobody else has.
LEMMA PlaceFacts ==
  ASSUME TypeInv, NEW d \in DOMAIN digests
  PROVE  /\ Place(d) = "asked" => /\ digests[d].status = "PROCESSING" /\ ~digests[d].old
                                  /\ Copied(d) = 0 /\ Share(unknowns, d) = 0
         /\ InHandOf(d) => (\A t \in todo : t.id # d) /\ phase \in Holding
         /\ Place(d) = "free" => Copied(d) = 0
         /\ phase = "idle" => Place(d) \in {"asked", "free"}
<1>1. InHandOf(d) => (\A t \in todo : t.id # d) /\ phase \in Holding
  BY DEF InHandOf, TypeInv, TypeOK, Held
<1>2. Place(d) \in {"free", "asked"} => Copied(d) = 0
  <2>1. Place(d) \in {"free", "asked"} => ~InHandOf(d) /\ \A t \in todo : t.id # d
    BY DEF Place
  <2>2. QED
    BY <2>1, ShareNone DEF Copied
<1>3. Place(d) = "asked" => /\ digests[d].status = "PROCESSING" /\ ~digests[d].old
                            /\ Share(unknowns, d) = 0
  <2>1. SUFFICES ASSUME Place(d) = "asked"
                 PROVE  digests[d].status = "PROCESSING" /\ ~digests[d].old /\ Share(unknowns, d) = 0
    OBVIOUS
  <2>2. PICK a \in Admins : admin[a].step \in {"check", "send"} /\ admin[a].id = d
    BY <2>1 DEF Place
  <2>3. /\ digests[d].status = "PROCESSING" /\ ~digests[d].old
        /\ \A t \in unknowns : t.id # d
    BY <2>2 DEF TypeInv, Fresh, Mine, Holding
  <2>4. QED
    BY <2>3, ShareNone
<1>4. phase = "idle" => Place(d) \in {"asked", "free"}
  BY <1>1 DEF TypeInv, Listed, Place, Holding
<1>5. QED
  BY <1>1, <1>2, <1>3, <1>4

\* A step after which nobody has more of d than before.
LEMMA StaysFunded ==
  ASSUME TypeInv, NEW d \in DOMAIN digests, Funded(d),
         digests'[d].status = digests[d].status, digests'[d].attempts = digests[d].attempts,
         Share(unknowns', d) = Share(unknowns, d), Copied(d)' = Copied(d),
         accepted'[d] = accepted[d], resends' = resends,
         \/ Place(d)' = Place(d)
         \/ Place(d) = "asked" /\ Place(d)' = "free"
         \/ Place(d) = "hand" /\ Place(d)' = "spent"
  PROVE  Funded(d)'
<1> DEFINE l == After(digests[d].attempts)
           c == Share(unknowns, d)
           n == Copied(d)
           s == digests[d].status
<1>0. l \in Nat /\ c \in Nat /\ n \in Nat /\ accepted[d] \in Nat /\ Allowed \in Nat
  BY PartsNat
<1>1. /\ Potential(d) = Worth(Place(d), s, l, c, n)
      /\ Potential(d)' = Worth(Place(d)', s, l, c, n)
      /\ Allowed' = Allowed
  BY DEF Potential, Allowed, After
<1>2. Place(d) = "asked" => s = "PROCESSING"
  BY PlaceFacts
<1> HIDE DEF l, c, n, s
<1>3. Worth(Place(d)', s, l, c, n) <= Worth(Place(d), s, l, c, n)
  <2>1. CASE Place(d)' = Place(d)
    BY <1>0, <2>1, WorthNat
  <2>2. CASE Place(d) = "asked" /\ Place(d)' = "free"
    BY <1>0, <1>2, <2>2 DEF Worth, Greater
  <2>3. CASE Place(d) = "hand" /\ Place(d)' = "spent"
    BY <1>0, <2>3 DEF Worth, Greater, Queued
  <2>4. QED
    BY <2>1, <2>2, <2>3
<1>4. accepted'[d] + Potential(d)' <= Allowed'
  <2>1. accepted[d] + Worth(Place(d), s, l, c, n) <= Allowed
    BY <1>1 DEF Funded
  <2>2. Worth(Place(d), s, l, c, n) \in Nat /\ Worth(Place(d)', s, l, c, n) \in Nat
    BY <1>0, WorthNat
  <2>3. QED
    BY <1>0, <1>1, <1>3, <2>1, <2>2
<1>5. digests'[d].status = "OUTCOME_UNKNOWN" => Place(d)' \in {"free", "stale"}
  BY DEF Funded
<1>6. QED
  BY <1>4, <1>5 DEF Funded

LEMMA QuietFunded ==
  ASSUME TypeInv, NEW d \in DOMAIN digests, Funded(d), Quiet
  PROVE  Funded(d)'
<1>1. Copied(d)' = Copied(d) /\ (InHandOf(d)' <=> InHandOf(d))
  BY DEF Quiet, Copied, InHandOf, Share, After
<1>2. InHandOf(d) => phase \in Holding
  BY PlaceFacts
<1>3. \/ Place(d)' = Place(d)
      \/ Place(d) = "asked" /\ Place(d)' = "free"
      \/ Place(d) = "hand" /\ Place(d)' = "spent"
  BY <1>1, <1>2 DEF Quiet, Place, Holding
<1>4. QED
  BY <1>1, <1>3, StaysFunded DEF Quiet

\* A step of another process than the worker, for a digest it does not touch.
LEMMA OthersFunded ==
  ASSUME TypeInv, NEW d \in DOMAIN digests, Funded(d), digests'[d].status = digests[d].status,
         digests'[d].attempts = digests[d].attempts, Share(unknowns', d) = Share(unknowns, d),
         UNCHANGED <<worker, resends>>, accepted'[d] = accepted[d],
         \A a \in Admins : admin'[a].id = d /\ admin'[a].step \in {"check", "send"} =>
           admin[a].id = d /\ admin[a].step \in {"check", "send"}
  PROVE  Funded(d)'
<1>1. Copied(d)' = Copied(d) /\ (InHandOf(d)' <=> InHandOf(d))
  BY DEF worker, Copied, InHandOf, Share, After
<1>2. \/ Place(d)' = Place(d)
      \/ Place(d) = "asked" /\ Place(d)' = "free"
  BY <1>1 DEF worker, Place
<1>3. QED
  BY <1>1, <1>2, StaysFunded

\* A step of the worker, for a digest it does not touch.
LEMMA WorkerFunded ==
  ASSUME TypeInv, NEW d \in DOMAIN digests, Funded(d), digests'[d].status = digests[d].status,
         digests'[d].attempts = digests[d].attempts,
         UNCHANGED <<unknowns, resends, admin>>, accepted'[d] = accepted[d],
         ~InHandOf(d), ~InHandOf(d)', phase = "recover" <=> phase' = "recover",
         todo' = todo \/ \E t \in todo : t.id # d /\ todo' = todo \ {t}
  PROVE  Funded(d)'
<1>1. Share(todo', d) = Share(todo, d)
  BY ShareMinus DEF TypeInv, Listed
<1>2. (\E t \in todo' : t.id = d) <=> (\E t \in todo : t.id = d)
  OBVIOUS
<1>3. Place(d)' = Place(d) /\ Copied(d)' = Copied(d)
  BY <1>1, <1>2 DEF Place, Copied, After
<1>4. QED
  BY <1>3, StaysFunded

\* What has to be shown of a step that touches d.
LEMMA CostsFunded ==
  ASSUME TypeInv, NEW d \in DOMAIN digests, Funded(d),
         NEW p, NEW l \in Nat, NEW c \in Nat, NEW n \in Nat,
         Place(d)' = p, After(digests'[d].attempts) = l, Share(unknowns', d) = c, Copied(d)' = n,
         accepted'[d] \in Nat, Allowed' \in Nat,
         accepted'[d] + Worth(p, digests'[d].status, l, c, n) + Allowed
           <= accepted[d] + Potential(d) + Allowed',
         digests'[d].status = "OUTCOME_UNKNOWN" => p \in {"free", "stale"}
  PROVE  Funded(d)'
<1>1. Potential(d) \in Nat /\ accepted[d] \in Nat /\ Allowed \in Nat
  BY PartsNat, WorthNat DEF Potential
<1>2. Potential(d)' = Worth(p, digests'[d].status, l, c, n)
  BY DEF Potential, After
<1>3. Worth(p, digests'[d].status, l, c, n) \in Nat
  BY WorthNat
<1>4. QED
  BY <1>1, <1>2, <1>3 DEF Funded

\* The same without the resend and without the provider.
LEMMA WritesFunded ==
  ASSUME TypeInv, NEW d \in DOMAIN digests, Funded(d),
         NEW p, NEW l \in Nat, NEW c \in Nat, NEW n \in Nat,
         Place(d)' = p, After(digests'[d].attempts) = l, Share(unknowns', d) = c, Copied(d)' = n,
         accepted' = accepted, resends' = resends,
         Worth(p, digests'[d].status, l, c, n) <= Potential(d),
         digests'[d].status = "OUTCOME_UNKNOWN" => p \in {"free", "stale"}
  PROVE  Funded(d)'
<1>1. Potential(d) \in Nat /\ accepted[d] \in Nat /\ Allowed \in Nat /\ Allowed' = Allowed
  BY PartsNat, WorthNat DEF Potential, Allowed
<1>2. Worth(p, digests'[d].status, l, c, n) \in Nat
  BY WorthNat
<1>3. accepted'[d] + Worth(p, digests'[d].status, l, c, n) + Allowed
        <= accepted[d] + Potential(d) + Allowed'
  BY <1>1, <1>2
<1>4. accepted'[d] \in Nat /\ Allowed' \in Nat
  BY <1>1
<1>5. QED
  BY <1>3, <1>4, CostsFunded

----------------------------------------------------------------------------
(* The reconciler, the events and the administration.                      *)

LEMMA RequeueWorth ==
  ASSUME NEW p, p # "asked", NEW s, NEW l \in Nat, NEW c \in Nat, NEW n \in Nat,
         NEW k \in Nat, k + 1 = c
  PROVE  Worth(p, "PENDING", k, 0, n) <= Worth(p, s, l, c, n)
BY DEF Worth, Greater, Queued

LEMMA ExhaustWorth ==
  ASSUME NEW p, NEW s, NEW l \in Nat, NEW c \in Nat, NEW n \in Nat
  PROVE  Worth(p, s, 0, 0, n) <= Worth(p, s, l, c, n)
BY DEF Worth, Greater, Queued

LEMMA ReconcilerFunded ==
  ASSUME TypeInv, NEW d \in DOMAIN digests, Funded(d),
         NEW t \in unknowns, Requeue(t) \/ Exhaust(t)
  PROVE  Funded(d)'
<1>1. /\ UNCHANGED <<worker, admin, accepted, resends>> /\ unknowns' = unknowns \ {t}
      /\ t.id \in DOMAIN digests /\ t.attempts \in Nat /\ t.attempts < MaxAttempts
      /\ \A u, v \in unknowns : u.id = v.id => u = v
  BY DEF Requeue, Exhaust, history, TypeInv, TypeOK, Waits, Copies
<1>2. \E s, n, o : RowIs(t.id, s, n, o)
  BY RequeueType, ExhaustType
<1>3. CASE t.id # d
  <2>1. digests'[d] = digests[d]
    BY <1>2, <1>3 DEF RowIs
  <2>2. Share(unknowns', d) = Share(unknowns, d)
    BY <1>1, <1>3, ShareMinus
  <2>3. QED
    BY <1>1, <2>1, <2>2, OthersFunded
<1>4. CASE t.id = d
  <2> DEFINE l == After(digests[d].attempts)
             c == Share(unknowns, d)
             n == Copied(d)
             s == digests[d].status
             p == Place(d)
  <2>1. l \in Nat /\ c \in Nat /\ n \in Nat /\ Potential(d) = Worth(p, s, l, c, n)
    BY PartsNat DEF Potential
  <2>2. c = After(t.attempts) /\ Share(unknowns', d) = 0
    BY <1>1, <1>4, ShareOf, ShareNone
  <2>3. Copied(d)' = n /\ Place(d)' = p
    BY <1>1 DEF Copied, Place, InHandOf, worker, Share, After
  <2>4. p # "asked"
    BY <1>4 DEF Place, TypeInv, Fresh, Mine, Holding
  <2>5. s = "OUTCOME_UNKNOWN" => p \in {"free", "stale"}
    BY DEF Funded
  <2> HIDE DEF l, c, n, s, p
  <2>6. CASE Requeue(t)
    <3>1. digests'[d].status = "PENDING" /\ digests'[d].attempts = t.attempts + 1
      <4>1. t.attempts + 1 \in 0..(MaxAttempts + 1)
        BY <1>1, Constants
      <4>2. QED
        BY <1>1, <1>4, <2>6, <4>1, WritesRow DEF Requeue, RowIs, Statuses
    <3>2. t.attempts + 1 < MaxAttempts
      BY <2>6 DEF Requeue, MayRequeue
    <3>3. After(t.attempts + 1) + 1 = c /\ After(t.attempts + 1) \in Nat
      BY <1>1, <2>2, <3>2, AfterNext, AfterNat
    <3> DEFINE k == After(t.attempts + 1)
    <3>4. k \in Nat /\ k + 1 = c /\ After(digests'[d].attempts) = k
      BY <3>1, <3>3
    <3> HIDE DEF k
    <3>5. Worth(p, "PENDING", k, 0, n) <= Potential(d)
      BY <2>1, <2>4, <3>4, RequeueWorth
    <3>6. QED
      <4>1. Worth(p, digests'[d].status, k, 0, n) <= Potential(d)
        BY <3>1, <3>5
      <4>2. accepted' = accepted /\ resends' = resends /\ digests'[d].status # "OUTCOME_UNKNOWN"
        BY <1>1, <3>1
      <4>3. 0 \in Nat
        OBVIOUS
      <4>4. QED
        BY <2>1, <2>2, <2>3, <3>4, <4>1, <4>2, <4>3, WritesFunded
  <2>7. CASE Exhaust(t)
    <3>1. digests'[d].status = s /\ digests'[d].attempts = MaxAttempts
      BY <1>4, <2>7, ExhaustType DEF RowIs, s
    <3>2. After(digests'[d].attempts) = 0
      BY <3>1, AfterNext
    <3>3. Worth(p, s, 0, 0, n) <= Potential(d)
      BY <2>1, ExhaustWorth
    <3>4. QED
      BY <1>1, <2>1, <2>2, <2>3, <2>5, <3>1, <3>2, <3>3, WritesFunded
  <2>8. QED
    BY <2>6, <2>7
<1>5. QED
  BY <1>3, <1>4

\* What the reconciler lists stays the row's own.
LEMMA ListUnknownsFunded ==
  ASSUME TypeInv, NEW d \in DOMAIN digests, Funded(d), ListUnknowns
  PROVE  Funded(d)'
<1>1. PICK E \in SUBSET In("OUTCOME_UNKNOWN") :
        unknowns = {} /\ unknowns' = {Copy(e) : e \in E}
  BY DEF ListUnknowns
<1>2. UNCHANGED <<digests, worker, admin, accepted, resends>>
  BY DEF ListUnknowns, history
<1>3. \A e \in E : Copy(e).id = e /\ Copy(e).attempts = digests[e].attempts
  BY CopyType DEF In
<1>4. Share(unknowns, d) = 0
  BY <1>1, ShareNone
<1>5. CASE d \notin E
  <2>1. Share(unknowns', d) = 0
    BY <1>1, <1>3, <1>5, ShareNone
  <2>2. QED
    BY <1>2, <1>4, <2>1, OthersFunded
<1>6. CASE d \in E
  <2> DEFINE l == After(digests[d].attempts)
             n == Copied(d)
             p == Place(d)
  <2>1. Copy(d) \in unknowns' /\ \A u \in unknowns' : u.id = Copy(d).id => u = Copy(d)
    BY <1>1, <1>3, <1>6
  <2>2. Share(unknowns', d) = l
    BY <1>3, <1>6, <2>1, ShareOf
  <2>3. digests[d].status = "OUTCOME_UNKNOWN" /\ p \in {"free", "stale"}
    BY <1>6 DEF In, Funded
  <2>4. l \in Nat /\ n \in Nat /\ Potential(d) = Worth(p, "OUTCOME_UNKNOWN", l, 0, n)
    BY <1>4, <2>3, PartsNat DEF Potential
  <2>5. Copied(d)' = n /\ Place(d)' = p /\ After(digests'[d].attempts) = l
    BY <1>2 DEF Copied, Place, InHandOf, worker, Share, After
  <2> HIDE DEF l, n, p
  <2>6. Worth(p, "OUTCOME_UNKNOWN", l, l, n) <= Potential(d)
    BY <2>3, <2>4 DEF Worth, Greater
  <2>7. QED
    BY <1>2, <2>2, <2>3, <2>4, <2>5, <2>6, WritesFunded
<1>7. QED
  BY <1>5, <1>6

LEMMA EndsWorth ==
  ASSUME NEW p, p # "asked", NEW s, NEW e \in {"SENT", "FAILED"},
         NEW l \in Nat, NEW c \in Nat, NEW n \in Nat
  PROVE  Worth(p, e, l, c, n) <= Worth(p, s, l, c, n)
BY DEF Worth, Greater, Queued

LEMMA HookResolvesFunded ==
  ASSUME TypeInv, NEW d \in DOMAIN digests, Funded(d), NEW h \in Hooks, HookResolves(h)
  PROVE  Funded(d)'
<1>1. UNCHANGED <<worker, unknowns, admin, accepted, resends>>
  BY DEF HookResolves, history
<1>2. CASE digests'[d] = digests[d]
  BY <1>1, <1>2, OthersFunded
<1>3. CASE digests'[d] # digests[d]
  <2>1. PICK e \in {"SENT", "FAILED"} :
          /\ hook[h].was = "OUTCOME_UNKNOWN" /\ hook[h].id = d
          /\ digests'[d].status = e /\ digests'[d].attempts = digests[d].attempts
    BY <1>3, HookResolvesRow DEF RowIs
  <2> DEFINE l == After(digests[d].attempts)
             c == Share(unknowns, d)
             n == Copied(d)
             p == Place(d)
  <2>2. l \in Nat /\ c \in Nat /\ n \in Nat
        /\ Potential(d) = Worth(p, digests[d].status, l, c, n)
    BY PartsNat DEF Potential
  <2>3. p # "asked"
    BY <2>1 DEF Place, TypeInv, Fresh, Mine, Holding
  <2>4. Copied(d)' = n /\ Place(d)' = p
    BY <1>1 DEF Copied, Place, InHandOf, worker, Share, After
  <2>5. Share(unknowns', d) = c /\ After(digests'[d].attempts) = l
    BY <1>1, <2>1
  <2> HIDE DEF l, c, n, p
  <2>6. Worth(p, e, l, c, n) <= Potential(d)
    BY <2>2, <2>3, EndsWorth
  <2>7. QED
    BY <1>1, <2>1, <2>2, <2>4, <2>5, <2>6, WritesFunded
<1>4. QED
  BY <1>2, <1>3

LEMMA GetsOldFunded ==
  ASSUME TypeInv, NEW d \in DOMAIN digests, Funded(d), NEW e \in DOMAIN digests, GetsOld(e)
  PROVE  Funded(d)'
<1>1. UNCHANGED <<worker, unknowns, admin, accepted, resends>>
  BY DEF GetsOld, history
<1>2. digests'[d].status = digests[d].status /\ digests'[d].attempts = digests[d].attempts
  BY GetsOldRow DEF RowIs
<1>3. QED
  BY <1>1, <1>2, OthersFunded

\* A digest a request has in hand is nobody else's.
LEMMA MineAlone ==
  ASSUME TypeInv, NEW a \in Admins, admin[a].step \in Holding
  PROVE  /\ admin[a].id \in DOMAIN digests /\ digests[admin[a].id].status = "PROCESSING"
         /\ digests[admin[a].id].attempts = 0
         /\ Copied(admin[a].id) = 0 /\ Share(unknowns, admin[a].id) = 0
         /\ ~InHandOf(admin[a].id) /\ \A t \in todo : t.id # admin[a].id
         /\ \A b \in Admins : b # a /\ admin[b].step \in Holding => admin[b].id # admin[a].id
<1>1. /\ admin[a].id \in DOMAIN digests /\ digests[admin[a].id].status = "PROCESSING"
      /\ digests[admin[a].id].attempts = 0
      /\ Mine(a, admin[a].id)
  BY DEF TypeInv, Fresh
<1>2. ~InHandOf(admin[a].id)
  BY <1>1 DEF Mine, InHandOf, TypeInv, TypeOK
<1>3. Copied(admin[a].id) = 0 /\ Share(unknowns, admin[a].id) = 0
  BY <1>1, <1>2, ShareNone DEF Mine, Copied
<1>4. QED
  BY <1>1, <1>2, <1>3 DEF Mine

LEMMA NowSendsFunded ==
  ASSUME TypeInv, NEW d \in DOMAIN digests, Funded(d), NEW a \in Admins, NowSends(a)
  PROVE  Funded(d)'
<1>1. PICK answer \in Results \ {"skipped"} :
        /\ Hands(admin[a].id, answer)
        /\ admin' = [admin EXCEPT ![a].step = "record", ![a].result = answer]
  BY DEF NowSends, Outcome
<1>2. /\ admin[a].step = "send" /\ admin[a].step \in Holding
      /\ UNCHANGED <<digests, worker, unknowns, resends>>
  BY <1>1 DEF NowSends, Holding, Hands
<1>3. /\ admin'[a].step = "record"
      /\ \A b \in Admins : b # a => admin'[b] = admin[b]
  BY <1>1 DEF TypeInv, TypeOK
<1>4. CASE admin[a].id # d
  <2>1. accepted'[d] = accepted[d]
    BY <1>1, <1>4, PartsNat DEF Hands, TypeInv, TypeOK
  <2>2. QED
    BY <1>2, <1>3, <2>1, OthersFunded
<1>5. CASE admin[a].id = d
  <2> DEFINE l == After(digests[d].attempts)
  <2>1. /\ digests[d].status = "PROCESSING" /\ Copied(d) = 0 /\ Share(unknowns, d) = 0
        /\ ~InHandOf(d) /\ \A t \in todo : t.id # d
        /\ \A b \in Admins : b # a /\ admin[b].step \in Holding => admin[b].id # d
    BY <1>2, <1>5, MineAlone
  <2>2. Place(d) = "asked" /\ Place(d)' = "free"
    BY <1>2, <1>3, <1>5, <2>1 DEF Place, InHandOf, worker, Holding
  <2>3. l \in Nat /\ accepted[d] \in Nat /\ Allowed \in Nat
        /\ Potential(d) = Worth("asked", "PROCESSING", l, 0, 0)
    BY <2>1, <2>2, PartsNat DEF Potential
  <2>4. accepted'[d] \in {accepted[d], accepted[d] + 1} /\ Allowed' = Allowed
    BY <1>1, <1>2, <1>5, PartsNat DEF Hands, TypeInv, TypeOK, Allowed
  <2>5. /\ After(digests'[d].attempts) = l /\ Share(unknowns', d) = 0 /\ Copied(d)' = 0
        /\ digests'[d].status = "PROCESSING"
    BY <1>2, <2>1 DEF Copied, InHandOf, worker, Share, After
  <2> HIDE DEF l
  <2>6. accepted'[d] + Worth("free", "PROCESSING", l, 0, 0) + Allowed
          <= accepted[d] + Potential(d) + Allowed'
    BY <2>3, <2>4 DEF Worth, Greater
  <2>7. accepted'[d] \in Nat /\ Allowed' \in Nat
    BY <2>3, <2>4
  <2>8. QED
    BY <2>2, <2>3, <2>5, <2>6, <2>7, CostsFunded
<1>6. QED
  BY <1>4, <1>5

LEMMA NowRecordsFunded ==
  ASSUME TypeInv, NEW d \in DOMAIN digests, Funded(d), NEW a \in Admins, NowRecords(a)
  PROVE  Funded(d)'
<1>1. PICK s \in {"SKIPPED", "OUTCOME_UNKNOWN", "FAILED", "SENT"}, m \in 0..1 :
        RowIs(admin[a].id, s, m, FALSE)
  BY NowRecordsRow
<1>2. /\ admin[a].step = "record" /\ admin[a].step \in Holding
      /\ UNCHANGED <<worker, unknowns, accepted, resends>>
      /\ admin'[a].step = "idle" /\ \A b \in Admins : b # a => admin'[b] = admin[b]
  BY Nothing DEF NowRecords, Holding, history, TypeInv, TypeOK
<1>3. CASE admin[a].id # d
  <2>1. digests'[d] = digests[d]
    BY <1>1, <1>3 DEF RowIs
  <2>2. QED
    BY <1>2, <2>1, OthersFunded
<1>4. CASE admin[a].id = d
  <2>1. /\ digests[d].status = "PROCESSING" /\ digests[d].attempts = 0
        /\ Copied(d) = 0 /\ Share(unknowns, d) = 0
        /\ ~InHandOf(d) /\ \A t \in todo : t.id # d
        /\ \A b \in Admins : b # a /\ admin[b].step \in Holding => admin[b].id # d
    BY <1>2, <1>4, MineAlone
  <2>2. Place(d) = "free" /\ Place(d)' = "free"
    BY <1>2, <1>4, <2>1 DEF Place, InHandOf, worker, Holding
  <2> DEFINE l == After(0)
             k == After(m)
  <2>3. l \in Nat /\ k \in Nat /\ k <= l
    BY Constants, AfterNat, AfterNext
  <2>4. /\ Potential(d) = Worth("free", "PROCESSING", l, 0, 0)
        /\ digests'[d].status = s /\ After(digests'[d].attempts) = k
        /\ Share(unknowns', d) = 0 /\ Copied(d)' = 0
    BY <1>1, <1>2, <1>4, <2>1, <2>2 DEF Potential, RowIs, Copied, InHandOf, worker, Share, After
  <2> HIDE DEF l, k
  <2>5. Worth("free", s, k, 0, 0) <= Potential(d)
    BY <2>3, <2>4 DEF Worth, Greater
  <2>6. QED
    BY <1>2, <2>2, <2>3, <2>4, <2>5, WritesFunded
<1>5. QED
  BY <1>3, <1>4

LEMMA ResendWorth ==
  ASSUME NEW p, p # "asked", NEW s, NEW l \in Nat, NEW c \in Nat, NEW n \in Nat, NEW k \in Nat
  PROVE  Worth(p, "PENDING", k, c, n) <= Worth(p, s, l, c, n) + k + 1
BY DEF Worth, Greater, Queued

\* A resend renews the budget.
LEMMA ResendFunded ==
  ASSUME TypeInv, NEW d \in DOMAIN digests, Funded(d), NEW a \in Admins, ResendWrites(a)
  PROVE  Funded(d)'
<1>1. /\ RowIs(admin[a].id, "PENDING", 0, FALSE)
      /\ admin[a].step = "resend" /\ UNCHANGED <<worker, unknowns, accepted>>
      /\ resends' = resends + 1
      /\ admin'[a].step = "idle" /\ \A b \in Admins : b # a => admin'[b] = admin[b]
  BY ResendWritesType, Nothing DEF ResendWrites, TypeInv, TypeOK
<1> DEFINE l == After(digests[d].attempts)
           c == Share(unknowns, d)
           n == Copied(d)
           s == digests[d].status
           p == Place(d)
<1>2. /\ l \in Nat /\ c \in Nat /\ n \in Nat /\ accepted[d] \in Nat /\ Allowed \in Nat
      /\ Potential(d) = Worth(p, s, l, c, n)
  BY PartsNat DEF Potential
<1>3. Allowed' = Allowed + MaxAttempts /\ Allowed' \in Nat
  <2>1. resends \in Nat /\ MaxAttempts \in Nat
    BY Constants DEF TypeInv, TypeOK
  <2>2. MaxAttempts * (1 + (resends + 1)) = MaxAttempts * (1 + resends) + MaxAttempts
    BY <2>1
  <2>3. QED
    BY <1>1, <1>2, <2>1, <2>2 DEF Allowed
<1>4. Place(d)' = p /\ Copied(d)' = n /\ Share(unknowns', d) = c
  BY <1>1 DEF Place, Copied, InHandOf, worker, Share, After
<1>5. s = "OUTCOME_UNKNOWN" => p \in {"free", "stale"}
  BY DEF Funded
<1>6. CASE admin[a].id # d
  <2>1. digests'[d] = digests[d]
    BY <1>1, <1>6 DEF RowIs
  <2>2. After(digests'[d].attempts) = l /\ digests'[d].status = s /\ accepted'[d] = accepted[d]
    BY <1>1, <2>1
  <2> HIDE DEF l, c, n, s, p
  <2>3. Worth(p, s, l, c, n) \in Nat
    BY <1>2, WorthNat
  <2>4. accepted'[d] + Worth(p, s, l, c, n) + Allowed <= accepted[d] + Potential(d) + Allowed'
    BY <1>2, <1>3, <2>2, <2>3, Constants
  <2>5. QED
    BY <1>2, <1>3, <1>4, <1>5, <2>2, <2>4, CostsFunded
<1>7. CASE admin[a].id = d
  <2>1. p # "asked"
    BY <1>1, <1>7 DEF Place, TypeInv, Fresh, Mine, Holding
  <2> DEFINE k == After(0)
  <2>2. /\ k \in Nat /\ k + 1 = MaxAttempts /\ After(digests'[d].attempts) = k
        /\ digests'[d].status = "PENDING" /\ accepted'[d] = accepted[d]
    <3>1. digests'[d].status = "PENDING" /\ digests'[d].attempts = 0 /\ accepted'[d] = accepted[d]
      BY <1>1, <1>7 DEF RowIs
    <3>2. 0 \in Nat
      OBVIOUS
    <3>3. QED
      BY <3>1, <3>2, AfterNat, AfterNext
  <2> HIDE DEF l, c, n, s, p, k
  <2>3. /\ Worth(p, "PENDING", k, c, n) <= Worth(p, s, l, c, n) + k + 1
        /\ Worth(p, "PENDING", k, c, n) \in Nat /\ Worth(p, s, l, c, n) \in Nat
    BY <1>2, <2>1, <2>2, ResendWorth, WorthNat
  <2>4. accepted'[d] + Worth(p, "PENDING", k, c, n) + Allowed
          <= accepted[d] + Potential(d) + Allowed'
    BY <1>2, <1>3, <2>2, <2>3
  <2>5. QED
    BY <1>2, <1>3, <1>4, <2>2, <2>4, CostsFunded
<1>8. QED
  BY <1>6, <1>7

LEMMA NewRowRoom ==
  ASSUME TypeInv, SchedulerCreates \/ SchedulerSkips \/ \E a \in Admins : NowCreates(a)
  PROVE  /\ Len(digests) + 1 <= MaxDigests
         /\ \E s \in Statuses \ {"OUTCOME_UNKNOWN"}, source \in Sources, jobs \in SUBSET Jobs :
              digests' = NewDigest(s, source, jobs)
<1>1. CASE SchedulerCreates \/ SchedulerSkips
  <2>1. Len(digests) + 1 <= MaxDigests
    BY <1>1, RowIds, CreatingFinite, Constants DEF SchedulerCreates, SchedulerSkips, TypeInv, Places
  <2>2. QED
    BY <1>1, <2>1 DEF SchedulerCreates, SchedulerSkips, TypeInv, TypeOK, Statuses, Sources
<1>2. ASSUME NEW a \in Admins, NowCreates(a)
      PROVE  /\ Len(digests) + 1 <= MaxDigests
             /\ \E s \in Statuses \ {"OUTCOME_UNKNOWN"}, source \in Sources, jobs \in SUBSET Jobs :
                  digests' = NewDigest(s, source, jobs)
  <2>1. Creating # {}
    BY <1>2 DEF NowCreates, Creating
  <2>2. Cardinality(Creating) # 0
    BY <2>1, CreatingFinite, FS_EmptySet
  <2>3. Cardinality(Creating) >= 1
    BY <2>2, CreatingFinite
  <2>4. Len(digests) + 1 <= MaxDigests
    BY <2>3, RowIds, CreatingFinite, Constants DEF TypeInv, Places
  <2>5. "PROCESSING" \in Statuses \ {"OUTCOME_UNKNOWN"} /\ "ADMIN_MANUAL" \in Sources
        /\ admin[a].jobs \in SUBSET Jobs
    BY DEF TypeInv, TypeOK, Statuses, Sources
  <2>6. QED
    BY <1>2, <2>4, <2>5 DEF NowCreates
<1>3. QED
  BY <1>1, <1>2

LEMMA CreatesFunded ==
  ASSUME TypeInv, BudgetInv, SchedulerCreates \/ SchedulerSkips \/ \E a \in Admins : NowCreates(a)
  PROVE  BudgetInv'
<1>0. PICK new \in Ids : new = Len(digests) + 1
  BY NewRowRoom, NewRow
<1>1. PICK s \in Statuses \ {"OUTCOME_UNKNOWN"}, source \in Sources, jobs \in SUBSET Jobs :
        digests' = NewDigest(s, source, jobs)
  BY NewRowRoom
<1>2. UNCHANGED <<worker, unknowns, accepted, resends>>
  BY DEF SchedulerCreates, SchedulerSkips, NowCreates, history
<1>3. /\ \A e \in DOMAIN digests : digests'[e] = digests[e]
      /\ DOMAIN digests' = DOMAIN digests \cup {new}
      /\ new \notin DOMAIN digests /\ new \in Ids
      /\ digests'[new].status = s /\ digests'[new].attempts = 0
  BY <1>0, <1>1, NewRowRoom, NewRow
<1>4. \A b \in Admins : \/ admin'[b] = admin[b]
                        \/ admin'[b].id = new
  <2>1. ASSUME NEW a \in Admins, NowCreates(a)
        PROVE  \A b \in Admins : admin'[b] = admin[b] \/ admin'[b].id = new
    BY ONLY <1>0, <2>1, AdminType, a \in Admins, TypeInv DEF TypeInv, NowCreates, AdminRecord
  <2>2. QED
    BY <2>1 DEF SchedulerCreates, SchedulerSkips
<1>5. ASSUME NEW d \in DOMAIN digests PROVE Funded(d)'
  BY <1>2, <1>3, <1>4, OthersFunded DEF BudgetInv
<1>6. Funded(new)'
  <2>1. \A t \in todo \cup unknowns : t.id # new
    BY <1>3 DEF TypeInv, Listed, Waits
  <2>2. ~InHandOf(new)
    BY <1>3 DEF InHandOf, TypeInv, TypeOK, Held
  <2>3. Copied(new)' = 0 /\ Share(unknowns', new) = 0 /\ Place(new)' \in {"asked", "free"}
    BY <1>2, <2>1, <2>2, ShareNone DEF Copied, InHandOf, Place, worker
  <2> DEFINE k == After(0)
             p == Place(new)'
  <2>4. Potential(new)' = Worth(p, s, k, 0, 0)
    BY <1>3, <2>3 DEF Potential, After
  <2>5. k \in Nat /\ k + 1 = MaxAttempts
    <3>1. 0 \in Nat
      OBVIOUS
    <3>2. QED
      BY <3>1, AfterNat, AfterNext
  <2> HIDE DEF k
  <2>6. Potential(new)' <= MaxAttempts /\ Potential(new)' \in Nat
    BY <2>3, <2>4, <2>5 DEF Worth, Greater, Queued
  <2>7. MaxAttempts <= Allowed' /\ Allowed' \in Nat
    <3>1. resends \in Nat /\ MaxAttempts \in Nat /\ resends' = resends
      BY <1>2, Constants DEF TypeInv, TypeOK
    <3>2. MaxAttempts * (1 + resends) = MaxAttempts + MaxAttempts * resends
          /\ MaxAttempts * resends \in Nat
      BY <3>1
    <3>3. QED
      BY <3>1, <3>2 DEF Allowed
  <2>8. accepted'[new] = 0
    BY <1>2, <1>3 DEF BudgetInv
  <2>9. QED
    BY <1>3, <2>6, <2>7, <2>8, Constants DEF Funded
<1>7. QED
  BY <1>2, <1>3, <1>5, <1>6 DEF BudgetInv

----------------------------------------------------------------------------
(* The worker.                                                             *)

LEMMA FailsCount ==
  ASSUME TypeInv, NEW t \in Copies, t.id \in DOMAIN digests, t.attempts <= MaxAttempts, Fails(t)
  PROVE  /\ \A e \in DOMAIN digests : e # t.id => digests'[e] = digests[e]
         /\ After(digests'[t.id].attempts) \in Nat
         /\ \/ digests'[t.id].status = "FAILED"
            \/ /\ digests'[t.id].status = "PENDING"
               /\ After(digests'[t.id].attempts) + 1 = After(t.attempts)
<1>1. t.attempts \in Nat /\ t.attempts + 1 \in 0..(MaxAttempts + 1)
  BY Constants DEF Copies
<1>2. PICK s \in {"FAILED", "PENDING"} :
        /\ Writes(t.id, s, t.attempts + 1)
        /\ s = "PENDING" => t.attempts + 1 < MaxAttempts
  <2>1. CASE t.attempts + 1 >= MaxAttempts
    BY <2>1 DEF Fails, NextAttempts
  <2>2. CASE ~(t.attempts + 1 >= MaxAttempts)
    <3>1. Writes(t.id, "PENDING", t.attempts + 1)
      BY <2>2 DEF Fails, NextAttempts
    <3>2. t.attempts + 1 < MaxAttempts
      BY <1>1, <2>2, Constants
    <3>3. QED
      BY <3>1, <3>2
  <2>3. QED
    BY <2>1, <2>2
<1>3. RowIs(t.id, s, t.attempts + 1, FALSE)
  BY <1>1, <1>2, WritesRow DEF Statuses
<1>4. After(t.attempts + 1) \in Nat /\ (s = "PENDING" => After(t.attempts + 1) + 1 = After(t.attempts))
  BY <1>1, <1>2, AfterNat, AfterNext
<1>5. QED
  BY <1>3, <1>4 DEF RowIs

\* No request has in hand what the worker listed or has in hand.
LEMMA NotAsked ==
  ASSUME TypeInv, NEW d, InHandOf(d) \/ \E t \in todo : t.id = d
  PROVE  \A a \in Admins : admin[a].step \in {"check", "send"} => admin[a].id # d
BY DEF TypeInv, TypeOK, Fresh, Mine, Holding, InHandOf

LEMMA SendFunded ==
  ASSUME TypeInv, NEW d \in DOMAIN digests, Funded(d), Send
  PROVE  Funded(d)'
<1>1. PICK answer \in Results \ {"skipped"} : Hands(current.id, answer)
  BY DEF Send
<1>2. /\ phase = "send" /\ phase' = "record" /\ phase \in Holding
      /\ UNCHANGED <<digests, admin, todo, current, unknowns, resends>>
  BY <1>1 DEF Send, Holding, Hands
<1>3. current \in Copies /\ current # Nobody
  BY <1>2, InHandType, Constants
<1>4. CASE current.id # d
  <2>1. accepted'[d] = accepted[d]
    BY <1>1, <1>4, PartsNat DEF Hands, TypeInv, TypeOK
  <2>2. ~InHandOf(d) /\ ~InHandOf(d)'
    BY <1>2, <1>4 DEF InHandOf
  <2>3. QED
    BY <1>2, <2>1, <2>2, WorkerFunded
<1>5. CASE current.id = d
  <2> DEFINE l == After(digests[d].attempts)
             c == Share(unknowns, d)
             n == Copied(d)
             s == digests[d].status
  <2>1. Place(d) = "hand" /\ Place(d)' = "spent"
    BY <1>2, <1>3, <1>5 DEF Place, InHandOf
  <2>2. /\ l \in Nat /\ c \in Nat /\ n \in Nat /\ accepted[d] \in Nat /\ Allowed \in Nat
        /\ Potential(d) = Worth("hand", s, l, c, n)
    BY <2>1, PartsNat DEF Potential
  <2>3. accepted'[d] \in {accepted[d], accepted[d] + 1} /\ Allowed' = Allowed
    BY <1>1, <1>2, <1>5, PartsNat DEF Hands, TypeInv, TypeOK, Allowed
  <2>4. /\ After(digests'[d].attempts) = l /\ Share(unknowns', d) = c /\ Copied(d)' = n
        /\ digests'[d].status = s
    BY <1>2 DEF Copied, InHandOf, Share, After
  <2>5. s # "OUTCOME_UNKNOWN"
    BY <2>1 DEF Funded
  <2> HIDE DEF l, c, n, s
  <2>6. accepted'[d] + Worth("spent", s, l, c, n) + Allowed <= accepted[d] + Potential(d) + Allowed'
    BY <2>2, <2>3 DEF Worth, Greater, Queued
  <2>7. accepted'[d] \in Nat /\ Allowed' \in Nat
    BY <2>2, <2>3
  <2>8. QED
    BY <2>1, <2>2, <2>4, <2>5, <2>6, <2>7, CostsFunded
<1>6. QED
  BY <1>4, <1>5

LEMMA TakeFunded ==
  ASSUME TypeInv, NEW d \in DOMAIN digests, Funded(d), NEW t \in todo, Take(t)
  PROVE  Funded(d)'
<1>1. t \in Copies /\ t.id \in DOMAIN digests /\ t # Nobody
      /\ \A u, v \in todo : u.id = v.id => u = v
  BY Constants DEF TypeInv, TypeOK, Listed
<1>2. RowIs(t.id, "PROCESSING", digests[t.id].attempts, FALSE)
  BY <1>1, TurnsRow DEF Take, Statuses
<1>3. /\ phase = "next" /\ phase' = "check" /\ todo' = todo \ {t} /\ current' = t
      /\ UNCHANGED <<admin, unknowns, accepted, resends>> /\ current = Nobody
  BY DEF Take, history, TypeInv, TypeOK, Held, Holding
<1>4. CASE t.id # d
  <2>1. digests'[d] = digests[d]
    BY <1>2, <1>4 DEF RowIs
  <2>2. ~InHandOf(d) /\ ~InHandOf(d)'
    BY <1>3, <1>4 DEF InHandOf
  <2>3. QED
    BY <1>3, <1>4, <2>1, <2>2, WorkerFunded
<1>5. CASE t.id = d
  <2> DEFINE l == After(digests[d].attempts)
             c == Share(unknowns, d)
             n == Copied(d)
             s == digests[d].status
  <2>1. Place(d) = "listed" /\ Place(d)' = "hand"
    BY <1>1, <1>3, <1>5 DEF Place, InHandOf
  <2>2. /\ l \in Nat /\ c \in Nat /\ n \in Nat
        /\ Potential(d) = Worth("listed", s, l, c, n)
    BY <2>1, PartsNat DEF Potential
  <2>3. n = After(t.attempts)
    BY <1>1, <1>3, <1>5, ShareOf DEF Copied, InHandOf
  <2>4. /\ After(digests'[d].attempts) = l /\ Share(unknowns', d) = c /\ Copied(d)' = n
        /\ digests'[d].status = "PROCESSING"
    BY <1>1, <1>2, <1>3, <1>5, <2>3 DEF Copied, InHandOf, RowIs, Share, After
  <2> HIDE DEF l, c, n, s
  <2>5. Worth("hand", "PROCESSING", l, c, n) <= Potential(d)
    BY <2>2 DEF Worth, Greater, Queued
  <2>6. QED
    BY <1>3, <2>1, <2>2, <2>4, <2>5, WritesFunded
<1>6. QED
  BY <1>4, <1>5

LEMMA FreeWorth ==
  ASSUME NEW p \in {"stale", "spent"}, NEW s, NEW l \in Nat, NEW c \in Nat, NEW n \in Nat, NEW k \in Nat
  PROVE  /\ Worth("free", "FAILED", k, c, 0) <= Worth(p, s, l, c, n)
         /\ k + 1 = n => Worth("free", "PENDING", k, c, 0) <= Worth(p, s, l, c, n)
         /\ p = "spent" => \A e \in {"SKIPPED", "OUTCOME_UNKNOWN", "SENT"} :
              Worth("free", e, l, c, 0) <= Worth(p, s, l, c, n)
BY DEF Worth, Greater, Queued

LEMMA RecoverFunded ==
  ASSUME TypeInv, NEW d \in DOMAIN digests, Funded(d), NEW t \in todo, Recover(t)
  PROVE  Funded(d)'
<1>1. t \in Copies /\ t.id \in DOMAIN digests /\ t.attempts <= MaxAttempts
      /\ \A u, v \in todo : u.id = v.id => u = v
  BY DEF TypeInv, TypeOK, Listed
<1>2. Fails(t)
  BY DEF Recover
<1>3. /\ phase = "recover" /\ phase' = phase /\ todo' = todo \ {t} /\ current' = current
      /\ UNCHANGED <<admin, unknowns, accepted, resends>> /\ current = Nobody
  BY DEF Recover, TypeInv, TypeOK, Held, Holding
<1>4. CASE t.id # d
  <2>1. digests'[d] = digests[d]
    BY <1>1, <1>2, <1>4, FailsCount
  <2>2. ~InHandOf(d) /\ ~InHandOf(d)'
    BY <1>3 DEF InHandOf
  <2>3. QED
    BY <1>3, <1>4, <2>1, <2>2, WorkerFunded
<1>5. CASE t.id = d
  <2> DEFINE l == After(digests[d].attempts)
             c == Share(unknowns, d)
             n == Copied(d)
             s == digests[d].status
             k == After(digests'[d].attempts)
  <2>1. Place(d) = "stale" /\ Place(d)' = "free"
    <3>1. \A a \in Admins : admin[a].step \in {"check", "send"} => admin[a].id # d
      BY <1>5, NotAsked
    <3>2. QED
      BY <1>1, <1>3, <1>5, <3>1 DEF Place, InHandOf
  <2>2. /\ l \in Nat /\ c \in Nat /\ n \in Nat
        /\ Potential(d) = Worth("stale", s, l, c, n)
    BY <2>1, PartsNat DEF Potential
  <2>3. n = After(t.attempts)
    BY <1>1, <1>3, <1>5, ShareOf DEF Copied, InHandOf
  <2>4. Copied(d)' = 0
    BY <1>1, <1>3, <1>5, ShareNone DEF Copied, InHandOf
  <2>5. /\ k \in Nat
        /\ digests'[d].status = "FAILED" \/ (digests'[d].status = "PENDING" /\ k + 1 = n)
    BY <1>1, <1>2, <1>5, <2>3, FailsCount
  <2>6. Share(unknowns', d) = c
    BY <1>3
  <2> HIDE DEF l, c, n, s, k
  <2>7. Worth("free", digests'[d].status, k, c, 0) <= Potential(d)
    BY <2>2, <2>5, FreeWorth
  <2>8. QED
    BY <1>3, <2>1, <2>2, <2>4, <2>5, <2>6, <2>7, WritesFunded DEF k
<1>6. QED
  BY <1>4, <1>5

\* What Record and Throws write to the digest in hand.
LEMMA HandWritten ==
  ASSUME TypeInv, Record \/ Throws
  PROVE  /\ phase = "record" /\ phase \in Holding /\ GoesOn /\ UNCHANGED <<accepted, resends>>
         /\ \/ Fails(current)
            \/ \E s \in {"SKIPPED", "OUTCOME_UNKNOWN", "SENT"} :
                 RowIs(current.id, s, digests[current.id].attempts, FALSE)
<1>1. phase = "record" /\ phase \in Holding /\ GoesOn /\ UNCHANGED <<accepted, resends>>
  BY DEF Record, Throws, Holding, history
<1>2. CASE Throws
  BY <1>1, <1>2 DEF Throws
<1>3. CASE Record /\ result = "failed"
  BY <1>1, <1>3 DEF Record
<1>4. CASE Record /\ result # "failed"
  <2>1. PICK s \in {"SKIPPED", "OUTCOME_UNKNOWN", "SENT"} : Turns(current.id, s)
    BY <1>1, <1>4 DEF Record, Results, TypeInv, Held
  <2>2. RowIs(current.id, s, digests[current.id].attempts, FALSE)
    BY <1>1, <2>1, InHandType, TurnsRow DEF Statuses
  <2>3. QED
    BY <1>1, <2>2
<1>5. QED
  BY <1>2, <1>3, <1>4

LEMMA RecordFunded ==
  ASSUME TypeInv, NEW d \in DOMAIN digests, Funded(d), Record \/ Throws
  PROVE  Funded(d)'
<1>1. /\ phase = "record" /\ phase \in Holding /\ UNCHANGED <<accepted, resends>>
      /\ \/ Fails(current)
         \/ \E s \in {"SKIPPED", "OUTCOME_UNKNOWN", "SENT"} :
              RowIs(current.id, s, digests[current.id].attempts, FALSE)
  BY HandWritten
<1>2. /\ current \in Copies /\ current # Nobody /\ current.id \in DOMAIN digests
      /\ current.attempts <= MaxAttempts /\ \A t \in todo : t.id # current.id
  BY <1>1, InHandType, Constants DEF TypeInv, Held
<1>3. /\ current' = Nobody /\ todo' = todo /\ phase' \in {"idle", "next"}
      /\ UNCHANGED <<admin, unknowns>>
  BY HandWritten DEF GoesOn
<1>4. CASE current.id # d
  <2>1. digests'[d] = digests[d]
    BY <1>1, <1>2, <1>4, FailsCount DEF RowIs
  <2>2. ~InHandOf(d) /\ ~InHandOf(d)'
    BY <1>3, <1>4 DEF InHandOf
  <2>3. QED
    BY <1>1, <1>3, <2>1, <2>2, WorkerFunded
<1>5. CASE current.id = d
  <2> DEFINE l == After(digests[d].attempts)
             c == Share(unknowns, d)
             n == Copied(d)
             s == digests[d].status
             k == After(digests'[d].attempts)
  <2>1. Place(d) = "spent" /\ Place(d)' = "free"
    <3>1. InHandOf(d) /\ ~InHandOf(d)'
      BY <1>2, <1>3, <1>5 DEF InHandOf
    <3>2. \A a \in Admins : admin[a].step \in {"check", "send"} => admin[a].id # d
      BY <3>1, NotAsked
    <3>3. QED
      BY <1>1, <1>2, <1>3, <1>5, <3>1, <3>2 DEF Place
  <2>2. /\ l \in Nat /\ c \in Nat /\ n \in Nat
        /\ Potential(d) = Worth("spent", s, l, c, n)
    BY <2>1, PartsNat DEF Potential
  <2>3. n = After(current.attempts)
    BY <1>2, <1>5 DEF Copied, InHandOf
  <2>4. Copied(d)' = 0
    BY <1>2, <1>3, <1>5, ShareNone DEF Copied, InHandOf
  <2>5. /\ k \in Nat
        /\ \/ digests'[d].status = "FAILED"
           \/ digests'[d].status = "PENDING" /\ k + 1 = n
           \/ digests'[d].status \in {"SKIPPED", "OUTCOME_UNKNOWN", "SENT"} /\ k = l
    <3>1. CASE Fails(current)
      BY <1>2, <1>5, <2>3, <3>1, FailsCount
    <3>2. CASE ~Fails(current)
      <4>1. digests'[d].status \in {"SKIPPED", "OUTCOME_UNKNOWN", "SENT"}
            /\ digests'[d].attempts = digests[d].attempts
        BY <1>1, <1>5, <3>2 DEF RowIs
      <4>2. QED
        BY <2>2, <4>1
    <3>3. QED
      BY <3>1, <3>2
  <2>6. Share(unknowns', d) = c
    BY <1>3
  <2> HIDE DEF l, c, n, s, k
  <2>7. Worth("free", digests'[d].status, k, c, 0) <= Potential(d)
    BY <2>2, <2>5, FreeWorth
  <2>8. QED
    BY <1>1, <2>1, <2>2, <2>4, <2>5, <2>6, <2>7, WritesFunded DEF k
<1>6. QED
  BY <1>4, <1>5

\* What the worker forgets falls to the row.
LEMMA DiesWorth ==
  ASSUME NEW p, p # "asked", NEW s, NEW l \in Nat, NEW c \in Nat, NEW n \in Nat
  PROVE  Worth("free", s, l, c, 0) <= Worth(p, s, l, c, n)
BY DEF Worth, Greater, Queued

LEMMA WorkerDiesFunded ==
  ASSUME TypeInv, NEW d \in DOMAIN digests, Funded(d), WorkerDies
  PROVE  Funded(d)'
<1>1. /\ current' = Nobody /\ todo' = {}
      /\ UNCHANGED <<digests, admin, unknowns, accepted, resends>>
  BY DEF WorkerDies, history
<1>2. Copied(d)' = 0 /\ ~InHandOf(d)'
  BY <1>1, ShareNone DEF Copied, InHandOf
<1>3. Place(d)' = IF Place(d) = "asked" THEN "asked" ELSE "free"
  <2>1. CASE InHandOf(d) \/ \E t \in todo : t.id = d
    BY <1>1, <1>2, <2>1, NotAsked DEF Place
  <2>2. CASE ~InHandOf(d) /\ \A t \in todo : t.id # d
    BY <1>1, <1>2, <2>2 DEF Place
  <2>3. QED
    BY <2>1, <2>2
<1>4. CASE Place(d) = "asked"
  BY <1>1, <1>2, <1>3, <1>4, PlaceFacts, StaysFunded
<1>5. CASE Place(d) # "asked"
  <2> DEFINE l == After(digests[d].attempts)
             c == Share(unknowns, d)
             n == Copied(d)
             s == digests[d].status
             p == Place(d)
  <2>1. /\ l \in Nat /\ c \in Nat /\ n \in Nat /\ Potential(d) = Worth(p, s, l, c, n)
    BY PartsNat DEF Potential
  <2>2. Share(unknowns', d) = c /\ After(digests'[d].attempts) = l /\ digests'[d].status = s
    BY <1>1
  <2> HIDE DEF l, c, n, s
  <2>3. Worth("free", s, l, c, 0) <= Potential(d)
    BY <1>5, <2>1, DiesWorth
  <2>4. Place(d)' = "free"
    BY <1>3, <1>5
  <2>5. QED
    BY <1>1, <1>2, <2>1, <2>2, <2>3, <2>4, WritesFunded
<1>6. QED
  BY <1>4, <1>5

\* A list takes over what its rows are good for.
LEMMA ListsFunded ==
  ASSUME TypeInv, NEW d \in DOMAIN digests, Funded(d), Tick \/ List
  PROVE  Funded(d)'
<1>1. PICK E \in SUBSET DOMAIN digests :
        /\ todo = {} /\ todo' = {Copy(e) : e \in E}
        /\ \A e \in E : \/ Tick /\ digests[e].status = "PROCESSING" /\ digests[e].old
                        \/ List /\ digests[e].status = "PENDING"
        /\ Tick => phase' = "recover"
        /\ List /\ E # {} => phase' = "next"
  <2>1. CASE Tick
    BY <2>1 DEF Tick, List, In, TypeInv, Listed
  <2>2. CASE List
    <3>1. PICK first \in SUBSET In("PENDING") :
            /\ todo' = {Copy(e) : e \in first}
            /\ phase' = IF first = {} THEN "idle" ELSE "next"
      BY <2>2 DEF List
    <3>2. ~Tick
      BY <2>2 DEF Tick, List
    <3>3. QED
      BY <2>2, <3>1, <3>2 DEF List, In
  <2>3. QED
    BY <2>1, <2>2
<1>2. /\ current = Nobody /\ current' = Nobody
      /\ UNCHANGED <<digests, admin, unknowns, accepted, resends>>
  BY DEF Tick, List, history, TypeInv, TypeOK, Held, Holding
<1>3. \A e \in E : Copy(e).id = e /\ Copy(e).attempts = digests[e].attempts
  BY CopyType
<1>4. ~InHandOf(d) /\ ~InHandOf(d)' /\ Copied(d) = 0 /\ Copied(d)' = Share(todo', d)
  BY <1>1, <1>2, ShareNone DEF Copied, InHandOf
<1>5. CASE d \notin E
  <2>1. Share(todo', d) = 0 /\ \A t \in todo' : t.id # d
    BY <1>1, <1>3, <1>5, ShareNone
  <2>2. Place(d)' = Place(d)
    BY <1>1, <1>2, <1>4, <2>1 DEF Place
  <2>3. QED
    BY <1>2, <1>4, <2>1, <2>2, StaysFunded
<1>6. CASE d \in E
  <2> DEFINE l == After(digests[d].attempts)
             c == Share(unknowns, d)
             s == digests[d].status
  <2>1. Copy(d) \in todo' /\ \A u \in todo' : u.id = Copy(d).id => u = Copy(d)
    BY <1>1, <1>3, <1>6
  <2>2. Copied(d)' = l /\ Share(unknowns', d) = c /\ After(digests'[d].attempts) = l
        /\ digests'[d].status = s
    BY <1>2, <1>3, <1>4, <1>6, <2>1, ShareOf
  <2>3. Place(d) = "free"
    BY <1>1, <1>4, <1>6, PlaceFacts DEF Place
  <2>4. l \in Nat /\ c \in Nat /\ Potential(d) = Worth("free", s, l, c, 0)
    BY <1>4, <2>3, PartsNat DEF Potential
  <2>5. \E t \in todo' : t.id = d
    BY <1>3, <1>6, <2>1
  <2>6. CASE Tick
    <3>1. Place(d)' = "stale" /\ s = "PROCESSING"
      BY <1>1, <1>4, <1>6, <2>5, <2>6 DEF Place, Tick, List
    <3> HIDE DEF l, c, s
    <3>2. Worth("stale", s, l, c, l) <= Potential(d)
      BY <2>4, <3>1 DEF Worth, Greater
    <3>3. QED
      BY <1>2, <2>2, <2>4, <3>1, <3>2, WritesFunded
  <2>7. CASE List
    <3>1. Place(d)' = "listed" /\ s = "PENDING"
      BY <1>1, <1>4, <1>6, <2>5, <2>7 DEF Place, Tick, List
    <3> HIDE DEF l, c, s
    <3>2. Worth("listed", s, l, c, l) <= Potential(d)
      BY <2>4, <3>1 DEF Worth, Greater, Queued
    <3>3. QED
      BY <1>2, <2>2, <2>4, <3>1, <3>2, WritesFunded
  <2>8. QED
    BY <2>6, <2>7
<1>7. QED
  BY <1>5, <1>6

----------------------------------------------------------------------------
(* Every step.                                                             *)

\* Only the creations make a digest, and only a send gives one away.
LEMMA AcceptedElsewhere ==
  ASSUME TypeInv, NEW d \in Ids \ DOMAIN digests,
         \/ Worker \/ WorkerDies \/ Reconciler \/ NextPeriod \/ OptOut \/ OptIn
         \/ Discover \/ SchedulerChooses
         \/ \E a \in Admins : \/ NowChecks(a) \/ NowStops(a) \/ NowSends(a) \/ NowRecords(a)
                              \/ NowChooses(a) \/ ResendReads(a) \/ ResendWrites(a) \/ AdminDies(a)
         \/ \E h \in Hooks : Hook(h)
         \/ \E e \in DOMAIN digests : GetsOld(e)
  PROVE  accepted'[d] = accepted[d]
<1> USE DEF history
<1>1. CASE Send
  <2>1. PICK answer \in Results : Hands(current.id, answer)
    BY <1>1 DEF Send
  <2>2. current.id \in DOMAIN digests
    BY <1>1 DEF Send, TypeInv, TypeOK, Held, Holding
  <2>3. QED
    BY <2>1, <2>2, HandsType, RowIds DEF TypeInv
<1>2. ASSUME NEW a \in Admins, NowSends(a) PROVE accepted'[d] = accepted[d]
  <2>1. PICK answer \in Results : Hands(admin[a].id, answer)
    BY <1>2 DEF NowSends
  <2>2. admin[a].id \in DOMAIN digests
    BY <1>2, MineAlone DEF NowSends, Holding
  <2>3. QED
    BY <2>1, <2>2, HandsType, RowIds DEF TypeInv
<1>3. CASE (Worker /\ ~Send) \/ WorkerDies \/ Reconciler
  BY <1>3 DEF Worker, Tick, List, Check, Stop, Record, Throws, Recover, Take, WorkerDies,
              Reconciler, ListUnknowns, Requeue, Exhaust
<1>4. CASE NextPeriod \/ OptOut \/ OptIn \/ Discover \/ SchedulerChooses
  BY <1>4 DEF NextPeriod, OptOut, OptIn, Discover, SchedulerChooses
<1>5. ASSUME NEW a \in Admins,
             \/ NowChecks(a) \/ NowStops(a) \/ NowRecords(a) \/ NowChooses(a)
             \/ ResendReads(a) \/ ResendWrites(a) \/ AdminDies(a)
      PROVE  accepted'[d] = accepted[d]
  BY <1>5 DEF NowChecks, NowStops, NowRecords, NowChooses, ResendReads, ResendWrites, AdminDies
<1>6. ASSUME NEW h \in Hooks, Hook(h) PROVE accepted'[d] = accepted[d]
  BY <1>6 DEF Hook, HookReads, HookResolves, HookSuppresses
<1>7. ASSUME NEW e \in DOMAIN digests, GetsOld(e) PROVE accepted'[d] = accepted[d]
  BY <1>7 DEF GetsOld
<1>8. QED
  BY <1>1, <1>2, <1>3, <1>4, <1>5, <1>6, <1>7

LEMMA AdminRows ==
  ASSUME TypeInv, NEW a \in Admins,
         \/ NowChecks(a) \/ NowStops(a) \/ NowSends(a) \/ NowRecords(a)
         \/ NowChooses(a) \/ ResendReads(a) \/ ResendWrites(a) \/ AdminDies(a)
  PROVE  digests' = digests \/ \E d, s, n, o : RowIs(d, s, n, o)
<1>1. CASE NowRecords(a)
  BY <1>1, NowRecordsRow
<1>2. CASE ResendWrites(a)
  BY <1>2, ResendWritesType
<1>3. QED
  BY <1>1, <1>2 DEF NowChecks, NowStops, NowSends, NowChooses, ResendReads, AdminDies

LEMMA BudgetKept ==
  ASSUME BudgetInv, digests' = digests \/ (\E d, s, n, o : RowIs(d, s, n, o)),
         \A d \in DOMAIN digests : Funded(d)',
         \A d \in Ids \ DOMAIN digests : accepted'[d] = accepted[d]
  PROVE  BudgetInv'
<1>1. DOMAIN digests' = DOMAIN digests
  BY DEF RowIs
<1>2. \A d \in DOMAIN digests' : Funded(d)'
  BY <1>1
<1>3. \A d \in Ids \ DOMAIN digests' : accepted'[d] = 0
  BY <1>1 DEF BudgetInv
<1>4. QED
  BY <1>2, <1>3 DEF BudgetInv

LEMMA BudgetInvInit == Init => BudgetInv
<1> SUFFICES ASSUME Init PROVE BudgetInv
  OBVIOUS
<1>1. DOMAIN digests = {} /\ accepted = [d \in Ids |-> 0]
  BY DEF Init
<1>2. QED
  BY <1>1 DEF BudgetInv

LEMMA BudgetInvNext ==
  ASSUME TypeInv, BudgetInv, [Next]_vars
  PROVE  BudgetInv'
<1>0. \A d \in DOMAIN digests : Funded(d)
  BY DEF BudgetInv
<1>1. CASE Discover \/ SchedulerChooses \/ NextPeriod \/ OptOut \/ OptIn
  <2>1. Quiet
    BY <1>1, QuietStep
  <2>2. \A d \in DOMAIN digests : Funded(d)'
    BY <1>0, <2>1, QuietFunded
  <2>3. QED
    BY <2>1, <2>2, BudgetKept DEF Quiet
<1>2. CASE SchedulerCreates \/ SchedulerSkips \/ \E a \in Admins : NowCreates(a)
  BY <1>2, CreatesFunded
<1>3. ASSUME NEW a \in Admins,
             \/ NowChecks(a) \/ NowStops(a) \/ NowSends(a) \/ NowRecords(a)
             \/ NowChooses(a) \/ ResendReads(a) \/ ResendWrites(a) \/ AdminDies(a)
      PROVE  BudgetInv'
  <2>1. ASSUME NEW d \in DOMAIN digests PROVE Funded(d)'
    BY <1>0, <1>3, QuietStep, QuietFunded, NowSendsFunded, NowRecordsFunded, ResendFunded
  <2>2. digests' = digests \/ \E d, s, n, o : RowIs(d, s, n, o)
    BY <1>3, AdminRows
  <2>3. \A d \in Ids \ DOMAIN digests : accepted'[d] = accepted[d]
    BY <1>3, AcceptedElsewhere
  <2>4. QED
    BY <2>1, <2>2, <2>3, BudgetKept
<1>4. CASE Worker \/ WorkerDies
  <2>1. ASSUME NEW d \in DOMAIN digests PROVE Funded(d)'
    BY <1>0, <1>4, QuietStep, QuietFunded, ListsFunded, SendFunded, RecordFunded, RecoverFunded,
       TakeFunded, WorkerDiesFunded DEF Worker
  <2>2. digests' = digests \/ \E d, s, n, o : RowIs(d, s, n, o)
    BY <1>4, OthersRows
  <2>3. \A d \in Ids \ DOMAIN digests : accepted'[d] = accepted[d]
    BY <1>4, AcceptedElsewhere
  <2>4. QED
    BY <2>1, <2>2, <2>3, BudgetKept
<1>5. CASE Reconciler
  <2>1. ASSUME NEW d \in DOMAIN digests PROVE Funded(d)'
    BY <1>0, <1>5, ReconcilerFunded, ListUnknownsFunded DEF Reconciler
  <2>2. digests' = digests \/ \E d, s, n, o : RowIs(d, s, n, o)
    BY <1>5, OthersRows
  <2>3. \A d \in Ids \ DOMAIN digests : accepted'[d] = accepted[d]
    BY <1>5, AcceptedElsewhere
  <2>4. QED
    BY <2>1, <2>2, <2>3, BudgetKept
<1>6. ASSUME NEW h \in Hooks, Hook(h) PROVE BudgetInv'
  <2>1. ASSUME NEW d \in DOMAIN digests PROVE Funded(d)'
    BY <1>0, <1>6, QuietStep, QuietFunded, HookResolvesFunded DEF Hook
  <2>2. digests' = digests \/ \E d, s, n, o : RowIs(d, s, n, o)
    BY <1>6, OthersRows
  <2>3. \A d \in Ids \ DOMAIN digests : accepted'[d] = accepted[d]
    BY <1>6, AcceptedElsewhere
  <2>4. QED
    BY <2>1, <2>2, <2>3, BudgetKept
<1>7. ASSUME NEW e \in DOMAIN digests, GetsOld(e) PROVE BudgetInv'
  <2>1. ASSUME NEW d \in DOMAIN digests PROVE Funded(d)'
    BY <1>0, <1>7, GetsOldFunded
  <2>2. digests' = digests \/ \E d, s, n, o : RowIs(d, s, n, o)
    BY <1>7, OthersRows
  <2>3. \A d \in Ids \ DOMAIN digests : accepted'[d] = accepted[d]
    BY <1>7, AcceptedElsewhere
  <2>4. QED
    BY <2>1, <2>2, <2>3, BudgetKept
<1>8. CASE UNCHANGED vars
  <2>1. Quiet
    BY <1>8, QuietStep
  <2>2. \A d \in DOMAIN digests : Funded(d)'
    BY <1>0, <2>1, QuietFunded
  <2>3. QED
    BY <2>1, <2>2, BudgetKept DEF Quiet
<1>9. QED
  BY <1>1, <1>2, <1>3, <1>4, <1>5, <1>6, <1>7, <1>8 DEF Next, Scheduler, Now

(* Timeouts, deaths, events and the reconciler together never hand a digest *)
(* to the provider more often than its attempts allow, MaxAttempts for the  *)
(* first time it was queued and as many for each resend.                    *)
THEOREM SendsStayBounded == Spec => []SendsBounded
<1>1. Init => TypeInv /\ BudgetInv
  BY TypeInvInit, BudgetInvInit
<1>2. TypeInv /\ BudgetInv /\ [Next]_vars => (TypeInv /\ BudgetInv)'
  BY TypeInvNext, BudgetInvNext
<1>3. TypeInv /\ BudgetInv => SendsBounded
  <2> SUFFICES ASSUME TypeInv, BudgetInv, NEW d \in Ids PROVE accepted[d] <= Allowed
    BY DEF SendsBounded, Allowed
  <2>1. CASE d \in DOMAIN digests
    <3>1. accepted[d] + Potential(d) <= Allowed
      BY <2>1 DEF BudgetInv, Funded
    <3>2. Potential(d) \in Nat /\ accepted[d] \in Nat /\ Allowed \in Nat
      BY <2>1, PartsNat, WorthNat DEF Potential
    <3>3. QED
      BY <3>1, <3>2
  <2>2. CASE d \notin DOMAIN digests
    <3>1. Allowed \in Nat
      BY Constants DEF Allowed, TypeInv, TypeOK
    <3>2. QED
      BY <2>2, <3>1 DEF BudgetInv
  <2>3. QED
    BY <2>1, <2>2
<1>4. QED
  BY <1>1, <1>2, <1>3, PTL DEF Spec

=============================================================================
