------------------------------ MODULE MasterCv ------------------------------
(***************************************************************************)
(* The Master CV of one user: the resumes, the active CvMasterDesignation  *)
(* and the UserProfile that follows it.  Requests write them (resumes/     *)
(* resumes.service.ts, the start of an analysis in cv-adaptation.          *)
(* service.ts), and so does the worker of the text's job when the          *)
(* extraction is done (cv-processing.worker.ts, cv-master-promotion.       *)
(* service.ts).                                                            *)
(*                                                                         *)
(* A transaction under the owner's advisory lock is one action; update()   *)
(* does not take it, and decides on what it read before.  A text has one   *)
(* open job and the job one worker: CvProcessing says when.  The user is   *)
(* one for whom the pipeline is enabled, with a UserProfile that nobody    *)
(* edits by hand.                                                          *)
(***************************************************************************)
EXTENDS Naturals

CONSTANTS
  Texts,    \* the contents of CVs, told apart by their hash
  Resumes,  \* resume ids, never used again
  Callers,  \* requests handled at once
  MaxAsks,  \* bound on what is asked for in all
  None,
  Absent, Deleted  \* no resume yet, and no resume any more

Intents == {"NONE", "PROMOTE_IF_FIRST", "PROMOTE_EXPLICIT"}
Rows == [text : Texts, linked : BOOLEAN, raw : BOOLEAN, master : BOOLEAN]
Jobs == [status : {"PENDING", "PROCESSING"}, intent : Intents,
         resume : Resumes \cup {None}]
Copies == [step : {"extract", "promote", "ready"}, intent : Intents,
           resume : Resumes \cup {None}]
RequestSteps == {"create", "primary", "find", "bare", "enqueue", "upgrade",
                 "link", "update"}
Asks == [step : RequestSteps, text : Texts, resume : Resumes \cup {None},
         intent : Intents, seen : Rows \cup Jobs \cup {None}]

ASSUME MasterAssumption ==
  /\ None \notin Resumes \cup Texts \cup Rows \cup Jobs \cup Copies \cup Asks
  /\ Absent \notin Rows /\ Deleted \notin Rows /\ Absent # Deleted
  /\ {"empty", "cleared"} \cap Texts = {}
  /\ MaxAsks \in Nat

VARIABLES
  resume,       \* the row of each id, Absent or Deleted
  designation,  \* the active one: [text, resume], or None
  profile,      \* the text the UserProfile derives from; "cleared" by an
                \* upload, "empty" before the first and after a removal
  source,       \* "none", "known" with a CvSource, "ready" with its profile
  job,          \* the open job of each text, or None
  work,         \* what the worker of the text's job loaded, and its next step
  request,      \* each request's next statement, and what it asks and read
  apart,        \* history: isMaster was written without the designation since
                \* the last promotion
  asks

vars == <<resume, designation, profile, source, job, work, request, apart,
          asks>>
master == <<resume, designation, profile, apart>>

----------------------------------------------------------------------------
Live == {r \in Resumes : resume[r] \notin {Absent, Deleted}}
IsMaster(r) == r \in Live /\ resume[r].master
Of(r, t) == r \in Live /\ resume[r].text = t
LiveOrNone(r) == r = None \/ r \in Live

TypeOK ==
  /\ resume \in [Resumes -> Rows \cup {Absent, Deleted}]
  /\ designation \in [text : Texts, resume : Resumes] \cup {None}
  /\ profile \in Texts \cup {"empty", "cleared"}
  /\ source \in [Texts -> {"none", "known", "ready"}]
  /\ job \in [Texts -> Jobs \cup {None}]
  /\ \A t \in Texts : job[t] # None => LiveOrNone(job[t].resume)
  /\ work \in [Texts -> Copies \cup {None}]
  /\ request \in [Callers -> Asks \cup {None}]
  /\ apart \in BOOLEAN
  /\ asks \in 0..MaxAsks

Init ==
  /\ resume = [r \in Resumes |-> Absent]
  /\ designation = None /\ profile = "empty"
  /\ source = [t \in Texts |-> "none"]
  /\ job = [t \in Texts |-> None] /\ work = [t \in Texts |-> None]
  /\ request = [c \in Callers |-> None]
  /\ apart = FALSE
  /\ asks = 0

----------------------------------------------------------------------------
(* Helpers.                                                                *)

Idle(c) == request[c] = None
At(c, s) == ~Idle(c) /\ request[c].step = s
Finish(c) == request' = [request EXCEPT ![c] = None]

\* Another request, within the bound.
Asked == asks < MaxAsks /\ asks' = asks + 1

\* isMaster for r, and taken away from every other.
Only(r) ==
  [q \in Resumes |-> IF q \in Live THEN [resume[q] EXCEPT !.master = (q = r)]
                     ELSE resume[q]]

\* Mutant: the foreign key of the jobs keeps the id.
KeepsResume(S) ==
  UNCHANGED job

\* CvProcessingJob.resumeId: ON DELETE SET NULL.
SetNull(S) ==
  job' = [t \in Texts |-> IF job[t] # None /\ job[t].resume \in S
                          THEN [job[t] EXCEPT !.resume = None] ELSE job[t]]

----------------------------------------------------------------------------
(* create.                                                                 *)

\* An upload begins; clearExistingProfile is a statement before all others.
StartCreate(c, t, clear) ==
  /\ Idle(c)
  /\ request' = [request EXCEPT ![c] =
       [step |-> "create", text |-> t, resume |-> None, intent |-> "NONE",
        seen |-> None]]
  /\ profile' = IF clear THEN "cleared" ELSE profile
  /\ UNCHANGED <<resume, designation, source, job, work, apart>>

NewRow(t, m) == [text |-> t, linked |-> FALSE, raw |-> TRUE, master |-> m]

\* supersedeIfResumeMatches, for the resumes that are about to go.
SupersededBy(S) ==
  IF designation # None /\ designation.resume \in S THEN None ELSE designation

\* The transaction of create.  A resume that is to be Master takes the place
\* of all others, and is then enqueued.
CreateResume(c, r) ==
  LET t == request[c].text IN
  /\ At(c, "create")
  /\ resume[r] = Absent
  /\ \/ \E i \in {"PROMOTE_EXPLICIT", "PROMOTE_IF_FIRST"} :
          /\ i = "PROMOTE_IF_FIRST" => Live = {}
          /\ resume' = [q \in Resumes |->
               IF q = r THEN NewRow(t, TRUE)
               ELSE IF q \in Live THEN Deleted ELSE resume[q]]
          /\ designation' = SupersededBy(Live)
          /\ SetNull(Live)
          /\ request' = [request EXCEPT ![c].step = "enqueue",
                                        ![c].resume = r, ![c].intent = i]
     \/ /\ resume' = [resume EXCEPT ![r] = NewRow(t, FALSE)]
        /\ Finish(c)
        /\ UNCHANGED <<designation, job>>
  /\ UNCHANGED <<profile, source, work, apart>>

----------------------------------------------------------------------------
(* setPrimaryCanonical.                                                    *)

\* It reads the resume and, for one that is Master, the designation; nothing
\* is to be done for the Master itself, nothing can be for one without text.
SetPrimary(c, r) ==
  /\ Idle(c)
  /\ r \in Live
  /\ ~(IsMaster(r) /\ designation # None /\ designation.resume = r)
  /\ resume[r].raw \/ resume[r].linked
  /\ request' = [request EXCEPT ![c] =
       [step |-> "primary", text |-> resume[r].text, resume |-> r,
        intent |-> "PROMOTE_EXPLICIT", seen |-> resume[r]]]
  /\ UNCHANGED <<master, source, job, work>>

Active(t) == designation # None /\ designation.text = t

\* Mutant: PROMOTE_IF_FIRST replaces.
AlwaysWins(t, i) == i \in Intents

\* runPromotionDecision: whether t is the active designation afterwards.
Wins(t, i) ==
  designation = None \/ Active(t) \/ i = "PROMOTE_EXPLICIT"

\* A foreign key, the resume's update by id or, at the commit, the trigger on
\* the designation refuses it.
PromotionThrows(t, r, i) ==
  Wins(t, i) /\ IF r = None THEN ~Active(t) ELSE r \notin Live

\* The active designation, new or realigned with its resume.
Designated(t, r) == [text |-> t, resume |-> r]

\* promoteAndProject: the decision, the flip of isMaster with the
\* designation, and the UserProfile if the Master's text has changed.
PromoteAndProject(t, r, i) ==
  /\ ~PromotionThrows(t, r, i)
  /\ IF Wins(t, i) /\ r # None
     THEN /\ designation' = Designated(t, r)
          /\ resume' = Only(r)
          /\ profile' = IF Active(t) THEN profile ELSE t
          /\ apart' = FALSE
     ELSE UNCHANGED master

\* The extraction of a linked resume is there: it is promoted at once.
PromoteNow(c) ==
  LET a == request[c] IN
  /\ At(c, "primary")
  /\ a.seen.linked /\ source[a.text] = "ready"
  /\ PromoteAndProject(a.text, a.resume, a.intent)
  /\ Finish(c)
  /\ UNCHANGED <<source, job, work>>

----------------------------------------------------------------------------
(* An analysis of a text.                                                  *)

\* resolveCanonicalMasterIntent: what saveAsMaster asks for, the first Master,
\* or the repair of a profile that is not ready.
IntentOf(save) ==
  IF save THEN "PROMOTE_EXPLICIT"
  ELSE IF designation = None THEN "PROMOTE_IF_FIRST"
  ELSE IF profile \notin Texts THEN "PROMOTE_EXPLICIT" ELSE "NONE"

Analyse(c, t, save) ==
  /\ Idle(c)
  /\ request' = [request EXCEPT ![c] =
       [step |-> IF IntentOf(save) = "NONE" THEN "enqueue" ELSE "find",
        text |-> t, resume |-> None, intent |-> IntentOf(save), seen |-> None]]
  /\ UNCHANGED <<master, source, job, work>>

\* ensureResumeForMasterPromotion looks for a resume linked to the text's
\* source; without one it creates a bare one, linked if there is a source.
FindResume(c) ==
  LET t == request[c].text
      linked == {r \in Live : Of(r, t) /\ resume[r].linked}
  IN /\ At(c, "find")
     /\ \/ \E r \in linked :
             request' = [request EXCEPT ![c].step = "enqueue", ![c].resume = r]
        \/ /\ linked = {}
           /\ request' = [request EXCEPT ![c].step = "bare",
                ![c].seen = [text |-> t, linked |-> source[t] # "none",
                             raw |-> FALSE, master |-> FALSE]]
     /\ UNCHANGED <<master, source, job, work>>

CreateBare(c, r) ==
  /\ At(c, "bare")
  /\ resume[r] = Absent
  /\ resume' = [resume EXCEPT ![r] = request[c].seen]
  /\ request' = [request EXCEPT ![c].step = "enqueue", ![c].resume = r,
                                ![c].seen = None]
  /\ UNCHANGED <<designation, profile, source, job, work, apart>>

----------------------------------------------------------------------------
(* enqueueFromUserText.                                                    *)

Enqueues(c) ==
  \/ At(c, "enqueue")
  \/ /\ At(c, "primary")
     /\ request[c].seen.raw
     /\ ~(request[c].seen.linked /\ source[request[c].text] = "ready")

\* The statement after an enqueue: the resume is linked to its source.
Linking(c) ==
  IF request[c].resume = None THEN Finish(c)
  ELSE request' = [request EXCEPT ![c].step = "link", ![c].seen = None]

NeedsUpgrade(a, row) ==
  /\ row.status = "PENDING"
  /\ \/ a.intent # "NONE" /\ row.intent = "NONE"
     \/ a.resume # None /\ row.resume = None

\* The CvSource is there, and under the text's advisory lock the open job is
\* found, or one is created.
Enqueue(c) ==
  LET a == request[c]
      t == a.text
      open == job[t]
  IN /\ Enqueues(c)
     /\ \A d \in Callers : ~(At(d, "upgrade") /\ request[d].text = t)
     /\ source' = [source EXCEPT ![t] = IF @ = "none" THEN "known" ELSE @]
     /\ \/ /\ open = None
           /\ LiveOrNone(a.resume)
           /\ job' = [job EXCEPT ![t] = [status |-> "PENDING",
                        intent |-> a.intent, resume |-> a.resume]]
           /\ Linking(c)
        \/ /\ open # None /\ NeedsUpgrade(a, open)
           /\ request' = [request EXCEPT ![c].step = "upgrade", ![c].seen = open]
           /\ UNCHANGED job
        \/ /\ open # None /\ ~NeedsUpgrade(a, open)
           /\ Linking(c)
           /\ UNCHANGED job
     /\ UNCHANGED <<master, work>>

\* The job is changed by id, whatever has become of it; one that is closed by
\* now is of no interest.
UpgradeJob(c) ==
  LET a == request[c]
      t == a.text
      intent == IF a.intent # "NONE" THEN a.intent ELSE a.seen.intent
      carried == IF a.seen.resume # None THEN a.seen.resume ELSE a.resume
  IN /\ At(c, "upgrade")
     /\ LiveOrNone(carried)
     /\ job' = IF job[t] = None THEN job
               ELSE [job EXCEPT ![t].intent = intent, ![t].resume = carried]
     /\ Linking(c)
     /\ UNCHANGED <<master, source, work>>

Link(c) ==
  LET r == request[c].resume IN
  /\ At(c, "link")
  /\ r \in Live
  /\ resume' = [resume EXCEPT ![r].linked = TRUE]
  /\ Finish(c)
  /\ UNCHANGED <<designation, profile, source, job, work, apart>>

\* A statement throws, or the process dies.
RequestFails(c) ==
  /\ ~Idle(c)
  /\ Finish(c)
  /\ UNCHANGED <<master, source, job, work>>

----------------------------------------------------------------------------
(* update, and the writes of isMaster that know no designation.            *)

StartUpdate(c, r) ==
  /\ Idle(c)
  /\ r \in Live
  /\ request' = [request EXCEPT ![c] =
       [step |-> "update", text |-> resume[r].text, resume |-> r,
        intent |-> "NONE", seen |-> resume[r]]]
  /\ UNCHANGED <<master, source, job, work>>

\* The transaction of update: whether the resume remains Master is decided on
\* isMaster as it was read, unless isPrimary says more.
Update(c) ==
  LET r == request[c].resume
      was == request[c].seen.master
  IN /\ At(c, "update")
     /\ r \in Live
     /\ \E remains \in {was, TRUE, was /\ Live = {r}} :
          resume' = IF remains THEN Only(r)
                    ELSE [resume EXCEPT ![r].master = FALSE]
     /\ apart' = (apart \/ resume' # resume)
     /\ Finish(c)
     /\ UNCHANGED <<designation, profile, source, job, work>>

\* setPrimaryLegacy for a user whose flag is off at the time, and
\* promoteResumeToMaster of the administration.
FlipMaster(r) ==
  /\ r \in Live
  /\ resume' = Only(r)
  /\ apart' = TRUE
  /\ UNCHANGED <<designation, profile, source, job, work, request>>

\* Mutant: every removal clears the profile.
ClearedAlways(r) == r \in Live

\* remove clears what derives from the CV if the Master goes.
MasterGoes(r) == designation # None /\ designation.resume = r

Remove(r) ==
  /\ r \in Live
  /\ designation' = SupersededBy({r})
  /\ profile' = IF MasterGoes(r) THEN "empty" ELSE profile
  /\ resume' = [resume EXCEPT ![r] = Deleted]
  /\ SetNull({r})
  /\ UNCHANGED <<source, work, request, apart>>

----------------------------------------------------------------------------
(* The worker of a text's job.                                             *)

Claim(t) ==
  /\ job[t] # None /\ job[t].status = "PENDING"
  /\ job' = [job EXCEPT ![t].status = "PROCESSING"]
  /\ work' = [work EXCEPT ![t] =
       [step |-> "extract", intent |-> job[t].intent, resume |-> job[t].resume]]
  /\ UNCHANGED <<master, source, request>>

WorkAt(t, s) == work[t] # None /\ work[t].step = s

Extract(t) ==
  /\ WorkAt(t, "extract")
  /\ source' = [source EXCEPT ![t] = "ready"]
  /\ work' = [work EXCEPT ![t].step = IF work[t].intent = "NONE" THEN "ready" ELSE "promote"]
  /\ UNCHANGED <<master, job, request>>

Promote(t) ==
  /\ WorkAt(t, "promote")
  /\ PromoteAndProject(t, work[t].resume, work[t].intent)
  /\ work' = [work EXCEPT ![t].step = "ready"]
  /\ UNCHANGED <<source, job, request>>

MarkReady(t) ==
  /\ WorkAt(t, "ready")
  /\ job' = [job EXCEPT ![t] = None]
  /\ work' = [work EXCEPT ![t] = None]
  /\ UNCHANGED <<master, source, request>>

\* A step throws, or the process dies: markFailed or the recovery puts the job
\* back, or closes it after its last attempt.
GiveUp(t) ==
  /\ work[t] # None
  /\ \/ job' = [job EXCEPT ![t].status = "PENDING"]
     \/ job' = [job EXCEPT ![t] = None]
  /\ work' = [work EXCEPT ![t] = None]
  /\ UNCHANGED <<master, source, request>>

----------------------------------------------------------------------------
Asking ==
  \/ \E c \in Callers :
       \/ \E t \in Texts, b \in BOOLEAN : StartCreate(c, t, b) \/ Analyse(c, t, b)
       \/ \E r \in Resumes : SetPrimary(c, r) \/ StartUpdate(c, r)
  \/ \E r \in Resumes : FlipMaster(r) \/ Remove(r)

Answering(c) ==
  \/ \E r \in Resumes : CreateResume(c, r) \/ CreateBare(c, r)
  \/ PromoteNow(c) \/ FindResume(c) \/ Enqueue(c) \/ UpgradeJob(c) \/ Link(c)
  \/ Update(c) \/ RequestFails(c)

Working(t) == Claim(t) \/ Extract(t) \/ Promote(t) \/ MarkReady(t) \/ GiveUp(t)

Next ==
  \/ Asking /\ Asked
  \/ /\ \/ \E c \in Callers : Answering(c)
        \/ \E t \in Texts : Working(t)
     /\ UNCHANGED asks

Spec == Init /\ [][Next]_vars

----------------------------------------------------------------------------
(* Properties.                                                             *)

\* The active designation names a resume that exists and has its text, the
\* only Master; but for writes of isMaster that leave the designation alone,
\* after which there still is one Master at most.
DesignationIsSound ==
  /\ \A q, r \in Resumes : IsMaster(q) /\ IsMaster(r) => q = r
  /\ designation # None =>
       /\ Of(designation.resume, designation.text)
       /\ apart \/ IsMaster(designation.resume)

\* The UserProfile derives from the active designation's text, whatever was
\* promoted, replaced or removed on the way, unless an upload blanked it.
ProfileFollowsMaster ==
  designation # None => profile \in {designation.text, "cleared"}

\* The formal invariant of CvMasterDesignation, schema.prisma:3674-3696.
FormalInvariant == DesignationIsSound /\ ProfileFollowsMaster

\* What was asked for explicitly: by a request, or by a job that is open.
Wanted ==
  {request[c].text : c \in {d \in Callers :
      ~Idle(d) /\ request[d].intent = "PROMOTE_EXPLICIT"}}
  \cup {t \in Texts : \/ job[t] # None /\ job[t].intent = "PROMOTE_EXPLICIT"
                      \/ work[t] # None /\ work[t].intent = "PROMOTE_EXPLICIT"}

Choice == INSTANCE MasterChoice WITH cvs <- Live, master <- designation,
                                     wanted <- Wanted

\* Promotions, uploads and removals, in any order, implement the choice the
\* user is promised: "if first" never replaces, nothing replaces that was not
\* asked for, and the Master goes with its CV only.
MasterIsChosen == Choice!Spec
=============================================================================
