--------------------------- MODULE MasterCv_proofs ---------------------------
(***************************************************************************)
(* Proofs about the Master CV, for any number of texts, resumes and        *)
(* requests: the variables keep their types, the active designation is     *)
(* sound, the profile follows it, and the whole implements MasterChoice.   *)
(*                                                                         *)
(* What requests and workers carry are ids of resumes that may be gone     *)
(* when they write.  An id is given once, to one text: Known says that     *)
(* what is carried still means that text, or nothing.                      *)
(***************************************************************************)
EXTENDS MasterCv, TLAPS

----------------------------------------------------------------------------
(* What is carried.                                                        *)

Ids == Rows \cup {Absent, Deleted}

\* r was given to a resume of text t, which may be gone.
Known(r, t) == r \in Resumes /\ resume[r] # Absent /\ (r \in Live => resume[r].text = t)
Carries(r, t) == r = None \/ Known(r, t)

\* What a request says of itself is still true of the rows.
Fits(a) ==
  /\ Carries(a.resume, a.text)
  /\ a.step \in {"primary", "update", "link"} => a.resume \in Resumes
  /\ a.step \in {"primary", "update", "bare"} => a.seen \in Rows
  /\ a.step = "bare" => a.seen.text = a.text /\ a.seen.master = FALSE
  /\ a.step = "upgrade" => a.seen \in Jobs /\ Carries(a.seen.resume, a.text)

RequestsFit == \A c \in Callers, a \in Asks : request[c] = a => Fits(a)
JobsFit == \A t \in Texts, j \in Jobs : job[t] = j => Carries(j.resume, t)
WorkFits ==
  \A t \in Texts, w \in Copies : work[t] = w =>
    /\ Carries(w.resume, t)
    /\ job[t] # None /\ job[t].status = "PROCESSING"

Typed == TypeOK /\ RequestsFit /\ JobsFit /\ WorkFits

\* What a step may do to the resumes.
Evolves ==
  /\ resume' \in [Resumes -> Ids]
  /\ \A r \in Resumes :
       /\ resume[r] # Absent => resume'[r] # Absent
       /\ resume[r] = Deleted => resume'[r] = Deleted
       /\ resume[r] \in Rows /\ resume'[r] \in Rows => resume'[r].text = resume[r].text

LEMMA LiveRows ==
  ASSUME TypeOK
  PROVE  Live = {r \in Resumes : resume[r] \in Rows}
BY MasterAssumption DEF TypeOK, Live

LEMMA LiveRowsNext ==
  ASSUME resume' \in [Resumes -> Ids]
  PROVE  Live' = {r \in Resumes : resume'[r] \in Rows}
BY MasterAssumption DEF Live, Ids

LEMMA KnownStays ==
  ASSUME TypeOK, Evolves, NEW r, NEW t, Carries(r, t)
  PROVE  Carries(r, t)'
<1>1. CASE r = None
  BY <1>1 DEF Carries
<1>2. CASE Known(r, t)
  <2>1. r \in Resumes /\ resume'[r] # Absent
    BY <1>2 DEF Known, Evolves
  <2>2. ASSUME r \in Live'
        PROVE  resume'[r].text = t
    <3>1. resume'[r] \in Rows
      BY <2>2, LiveRowsNext DEF Evolves
    <3>2. resume[r] \in Rows
      BY <1>2, <3>1, MasterAssumption DEF Known, Evolves, TypeOK
    <3>3. r \in Live
      BY <2>1, <3>2, LiveRows
    <3>4. QED
      BY <1>2, <3>1, <3>2, <3>3, <2>1 DEF Known, Evolves
  <2>3. QED
    BY <2>1, <2>2 DEF Carries, Known
<1>3. QED
  BY <1>1, <1>2 DEF Carries

LEMMA FitsStays ==
  ASSUME TypeOK, Evolves, NEW a, Fits(a)
  PROVE  Fits(a)'
<1>1. Carries(a.resume, a.text)'
  BY KnownStays DEF Fits
<1>2. a.step = "upgrade" => Carries(a.seen.resume, a.text)'
  BY KnownStays DEF Fits
<1>3. QED
  BY <1>1, <1>2 DEF Fits

\* A request takes its next step to a, the others stay where they are.
LEMMA RequestGoes ==
  ASSUME Typed, Evolves, NEW c \in Callers, NEW a \in Asks \cup {None},
         request' = [request EXCEPT ![c] = a],
         a # None => Fits(a)'
  PROVE  request' \in [Callers -> Asks \cup {None}] /\ RequestsFit'
<1>1. request' \in [Callers -> Asks \cup {None}]
  BY DEF Typed, TypeOK
<1>2. ASSUME NEW d \in Callers, NEW b \in Asks, request'[d] = b
      PROVE  Fits(b)'
  <2>1. CASE d = c
    BY <1>2, <2>1, MasterAssumption DEF Typed, TypeOK
  <2>2. CASE d # c
    <3>1. request[d] = b
      BY <1>2, <2>2 DEF Typed, TypeOK
    <3>2. Fits(b)
      BY <3>1 DEF Typed, RequestsFit
    <3>3. QED
      BY <3>2, FitsStays DEF Typed
  <2>3. QED
    BY <2>1, <2>2
<1>3. QED
  BY <1>1, <1>2 DEF RequestsFit

LEMMA RequestsStay ==
  ASSUME Typed, Evolves, request' = request
  PROVE  request' \in [Callers -> Asks \cup {None}] /\ RequestsFit'
<1>1. ASSUME NEW d \in Callers, NEW b \in Asks, request'[d] = b
      PROVE  Fits(b)'
  BY <1>1, FitsStays DEF Typed, RequestsFit
<1>2. QED
  BY <1>1 DEF RequestsFit, Typed, TypeOK

\* The same for the open jobs and for what their workers carry.
LEMMA JobGoes ==
  ASSUME Typed, Evolves, NEW t \in Texts, NEW j \in Jobs \cup {None},
         job' = [job EXCEPT ![t] = j],
         j # None => Carries(j.resume, t)'
  PROVE  job' \in [Texts -> Jobs \cup {None}] /\ JobsFit'
<1>1. job' \in [Texts -> Jobs \cup {None}]
  BY DEF Typed, TypeOK
<1>2. ASSUME NEW u \in Texts, NEW i \in Jobs, job'[u] = i
      PROVE  Carries(i.resume, u)'
  <2>1. CASE u = t
    BY <1>2, <2>1, MasterAssumption DEF Typed, TypeOK
  <2>2. CASE u # t
    <3>1. job[u] = i
      BY <1>2, <2>2 DEF Typed, TypeOK
    <3>2. Carries(i.resume, u)
      BY <3>1 DEF Typed, JobsFit
    <3>3. QED
      BY <3>2, KnownStays DEF Typed
  <2>3. QED
    BY <2>1, <2>2
<1>3. QED
  BY <1>1, <1>2 DEF JobsFit

LEMMA JobsStay ==
  ASSUME Typed, Evolves, job' = job
  PROVE  job' \in [Texts -> Jobs \cup {None}] /\ JobsFit'
<1>1. ASSUME NEW u \in Texts, NEW i \in Jobs, job'[u] = i
      PROVE  Carries(i.resume, u)'
  BY <1>1, KnownStays DEF Typed, JobsFit
<1>2. QED
  BY <1>1 DEF JobsFit, Typed, TypeOK

\* Resumes that go are forgotten by the jobs.
LEMMA JobsForget ==
  ASSUME Typed, Evolves, NEW S, SetNull(S)
  PROVE  /\ job' \in [Texts -> Jobs \cup {None}] /\ JobsFit'
         /\ \A t \in Texts : job'[t] # None =>
              /\ job[t] # None /\ job'[t].status = job[t].status
              /\ job'[t].resume \in {job[t].resume, None} /\ job'[t].resume \notin S \ {None}
<1>1. ASSUME NEW t \in Texts
      PROVE  /\ job'[t] \in Jobs \cup {None}
             /\ job[t] = None => job'[t] = None
             /\ job[t] # None =>
                  /\ job'[t].status = job[t].status
                  /\ job'[t].resume = IF job[t].resume \in S THEN None ELSE job[t].resume
  <2>1. job[t] \in Jobs \cup {None}
    BY DEF Typed, TypeOK
  <2>2. QED
    BY <2>1, MasterAssumption DEF SetNull, Jobs
<1>2. job' \in [Texts -> Jobs \cup {None}]
  BY <1>1 DEF SetNull
<1>3. ASSUME NEW u \in Texts, NEW i \in Jobs, job'[u] = i
      PROVE  Carries(i.resume, u)'
  <2>1. PICK j \in Jobs : job[u] = j
    BY <1>1, <1>3, MasterAssumption DEF Typed, TypeOK
  <2>2. Carries(j.resume, u)
    BY <2>1 DEF Typed, JobsFit
  <2>3. Carries(j.resume, u)'
    BY <2>2, KnownStays DEF Typed
  <2>4. i.resume = None \/ i.resume = j.resume
    BY <1>1, <1>3, <2>1, MasterAssumption
  <2>5. QED
    BY <2>3, <2>4 DEF Carries
<1>4. QED
  BY <1>1, <1>2, <1>3 DEF JobsFit

\* What the foreign key of the jobs says.
JobRefs == \A t \in Texts : job[t] # None => job[t].resume \in Live \cup {None}

LEMMA WorkStays ==
  ASSUME Typed, Evolves, work' = work,
         \A t \in Texts : job[t] # None /\ job[t].status = "PROCESSING" =>
                            job'[t] # None /\ job'[t].status = "PROCESSING"
  PROVE  work' \in [Texts -> Copies \cup {None}] /\ WorkFits'
<1>1. ASSUME NEW t \in Texts, NEW w \in Copies, work'[t] = w
      PROVE  Carries(w.resume, t)'
  BY <1>1, KnownStays DEF Typed, WorkFits
<1>2. QED
  BY <1>1 DEF WorkFits, Typed, TypeOK

\* The worker of one job takes its next step to w.
LEMMA WorkGoes ==
  ASSUME Typed, Evolves, NEW t \in Texts, NEW w \in Copies \cup {None},
         work' = [work EXCEPT ![t] = w],
         w # None => Carries(w.resume, t)' /\ job'[t] # None /\ job'[t].status = "PROCESSING",
         \A u \in Texts \ {t} : job'[u] = job[u]
  PROVE  work' \in [Texts -> Copies \cup {None}] /\ WorkFits'
<1>1. work' \in [Texts -> Copies \cup {None}]
  BY DEF Typed, TypeOK
<1>2. ASSUME NEW u \in Texts, NEW x \in Copies, work'[u] = x
      PROVE  Carries(x.resume, u)' /\ job'[u] # None /\ job'[u].status = "PROCESSING"
  <2>1. CASE u = t
    BY <1>2, <2>1, MasterAssumption DEF Typed, TypeOK
  <2>2. CASE u # t
    <3>1. work[u] = x
      BY <1>2, <2>2 DEF Typed, TypeOK
    <3>2. Carries(x.resume, u)
      BY <3>1 DEF Typed, WorkFits
    <3>3. job[u] # None /\ job[u].status = "PROCESSING"
      BY <3>1 DEF Typed, WorkFits
    <3>4. QED
      BY <2>2, <3>2, <3>3, KnownStays DEF Typed
  <2>3. QED
    BY <2>1, <2>2
<1>3. QED
  BY <1>1, <1>2 DEF WorkFits

LEMMA RestStays ==
  ASSUME Typed, Evolves, Live \subseteq Live', UNCHANGED <<job, work>>
  PROVE  /\ job' \in [Texts -> Jobs \cup {None}] /\ JobsFit' /\ JobRefs'
         /\ work' \in [Texts -> Copies \cup {None}] /\ WorkFits'
<1>1. JobRefs'
  BY DEF JobRefs, Typed, TypeOK, LiveOrNone
<1>2. QED
  BY <1>1, JobsStay, WorkStays

LEMMA TypedNext ==
  ASSUME Evolves,
         designation' \in [text : Texts, resume : Resumes] \cup {None},
         profile' \in Texts \cup {"empty", "cleared"},
         source' \in [Texts -> {"none", "known", "ready"}],
         job' \in [Texts -> Jobs \cup {None}] /\ JobsFit' /\ JobRefs',
         work' \in [Texts -> Copies \cup {None}] /\ WorkFits',
         request' \in [Callers -> Asks \cup {None}] /\ RequestsFit',
         apart' \in BOOLEAN, asks' \in 0..MaxAsks
  PROVE  Typed'
<1>1. \A t \in Texts : job'[t] # None => job'[t].resume = None \/ job'[t].resume \in Live'
  BY DEF JobRefs
<1>2. QED
  BY <1>1 DEF Typed, TypeOK, Evolves, Ids, LiveOrNone

LEMMA Quiet ==
  ASSUME TypeOK, UNCHANGED resume
  PROVE  Evolves /\ Live' = Live
BY DEF TypeOK, Evolves, Ids, Live

\* isMaster moves to r.
LEMMA OnlyEvolves ==
  ASSUME TypeOK, NEW r \in Resumes, resume' = Only(r)
  PROVE  /\ Evolves /\ Live' = Live
         /\ \A q \in Live : resume'[q] = [resume[q] EXCEPT !.master = (q = r)]
<1>1. \A q \in Live : resume[q] \in Rows
  BY LiveRows
<1>2. \A q \in Resumes :
        resume'[q] = IF q \in Live THEN [resume[q] EXCEPT !.master = (q = r)] ELSE resume[q]
  BY DEF Only
<1>3. \A q \in Live : resume'[q] \in Rows /\ resume'[q].text = resume[q].text
  BY <1>1, <1>2 DEF Rows, Live
<1>4. Evolves
  <2>1. resume' \in [Resumes -> Ids]
    BY <1>2, <1>3 DEF Only, Ids, TypeOK
  <2>2. QED
    BY <1>2, <1>3, <2>1, MasterAssumption DEF Evolves, Live
<1>5. Live' = Live
  BY <1>2, <1>3, MasterAssumption DEF Live
<1>6. QED
  BY <1>2, <1>4, <1>5 DEF Live

\* One row changes, and neither its text nor whether it is there.
LEMMA RowEvolves ==
  ASSUME TypeOK, NEW r \in Live, NEW row \in Rows, row.text = resume[r].text,
         resume' = [resume EXCEPT ![r] = row]
  PROVE  Evolves /\ Live' = Live
<1>1. \A q \in Resumes : resume'[q] = IF q = r THEN row ELSE resume[q]
  BY DEF TypeOK, Live
<1>2. resume[r] \in Rows
  BY LiveRows
<1>3. resume' \in [Resumes -> Ids]
  BY DEF TypeOK, Ids
<1>4. QED
  BY <1>1, <1>2, <1>3, MasterAssumption DEF Evolves, Live

\* What is carried and live is a resume of the text it was given to.
LEMMA PromotionEvolves ==
  ASSUME TypeOK, NEW t \in Texts, NEW r \in Resumes \cup {None}, NEW i,
         PromoteAndProject(t, r, i)
  PROVE  /\ Evolves /\ Live' = Live
         /\ designation' \in [text : Texts, resume : Resumes] \cup {None}
         /\ profile' \in Texts \cup {"empty", "cleared"} /\ apart' \in BOOLEAN
<1>1. CASE Wins(t, i) /\ r # None
  <2>1. /\ r \in Resumes /\ resume' = Only(r)
        /\ designation' = [text |-> t, resume |-> r]
        /\ profile' = IF Active(t) THEN profile ELSE t
        /\ apart' = FALSE
    BY <1>1 DEF PromoteAndProject, Designated
  <2>2. Evolves /\ Live' = Live
    BY <2>1, OnlyEvolves
  <2>3. QED
    BY <2>1, <2>2 DEF TypeOK
<1>2. CASE ~(Wins(t, i) /\ r # None)
  BY <1>2, Quiet DEF PromoteAndProject, master, TypeOK
<1>3. QED
  BY <1>1, <1>2

----------------------------------------------------------------------------
(* Every action keeps the types.                                           *)

\* A request that changes nothing but itself, the profile or the sources.
LEMMA RequestKeepsTyped ==
  ASSUME Typed, asks' \in 0..MaxAsks, NEW c \in Callers, NEW a \in Asks \cup {None},
         UNCHANGED <<resume, designation, apart, job, work>>,
         profile' \in Texts \cup {"empty", "cleared"},
         source' \in [Texts -> {"none", "known", "ready"}],
         request' = [request EXCEPT ![c] = a],
         a # None => Fits(a)
  PROVE  Typed'
<1>1. Evolves /\ Live' = Live
  BY Quiet DEF Typed
<1>2. a # None => Fits(a)'
  BY <1>1, FitsStays DEF Typed
<1>3. request' \in [Callers -> Asks \cup {None}] /\ RequestsFit'
  BY <1>1, <1>2, RequestGoes
<1>4. QED
  BY <1>1, <1>3, RestStays, TypedNext DEF Typed, TypeOK

LEMMA AskingKeepsTyped ==
  ASSUME Typed, Asking, asks' \in 0..MaxAsks
  PROVE  Typed'
<1>1. ASSUME NEW c \in Callers, NEW t \in Texts, NEW b \in BOOLEAN, StartCreate(c, t, b)
      PROVE  Typed'
  <2> DEFINE a == [step |-> "create", text |-> t, resume |-> None, intent |-> "NONE",
                   seen |-> None]
  <2>1. a \in Asks /\ Fits(a)
    BY DEF Asks, RequestSteps, Intents, Fits, Carries
  <2>2. /\ UNCHANGED <<resume, designation, source, job, work, apart>>
        /\ profile' \in Texts \cup {"empty", "cleared"}
        /\ request' = [request EXCEPT ![c] = a]
    BY <1>1 DEF StartCreate, Typed, TypeOK
  <2>3. QED
    BY <2>1, <2>2, RequestKeepsTyped DEF Typed, TypeOK
<1>2. ASSUME NEW c \in Callers, NEW t \in Texts, NEW b \in BOOLEAN, Analyse(c, t, b)
      PROVE  Typed'
  <2> DEFINE a == [step |-> IF IntentOf(b) = "NONE" THEN "enqueue" ELSE "find",
                   text |-> t, resume |-> None, intent |-> IntentOf(b), seen |-> None]
  <2>1. a \in Asks /\ Fits(a)
    BY DEF Asks, RequestSteps, Intents, IntentOf, Fits, Carries
  <2>2. UNCHANGED <<master, source, job, work>> /\ request' = [request EXCEPT ![c] = a]
    BY <1>2 DEF Analyse
  <2>3. QED
    BY <2>1, <2>2, RequestKeepsTyped DEF master, Typed, TypeOK
<1>3. ASSUME NEW c \in Callers, NEW r \in Resumes,
             SetPrimary(c, r) \/ StartUpdate(c, r)
      PROVE  Typed'
  <2>1. r \in Live /\ resume[r] \in Rows /\ Known(r, resume[r].text)
    BY <1>3, LiveRows, MasterAssumption DEF SetPrimary, StartUpdate, Typed, Known, Live
  <2>2. PICK s \in {"primary", "update"}, i \in Intents :
          request' = [request EXCEPT ![c] =
            [step |-> s, text |-> resume[r].text, resume |-> r, intent |-> i,
             seen |-> resume[r]]]
    BY <1>3 DEF SetPrimary, StartUpdate, Intents
  <2> DEFINE a == [step |-> s, text |-> resume[r].text, resume |-> r, intent |-> i,
                   seen |-> resume[r]]
  <2>3. a \in Asks /\ Fits(a)
    BY <2>1 DEF Asks, RequestSteps, Rows, Fits, Carries
  <2>4. UNCHANGED <<master, source, job, work>>
    BY <1>3 DEF SetPrimary, StartUpdate
  <2>5. QED
    BY <2>2, <2>3, <2>4, RequestKeepsTyped DEF master, Typed, TypeOK
<1>4. ASSUME NEW r \in Resumes, FlipMaster(r)
      PROVE  Typed'
  <2>1. Evolves /\ Live' = Live
    BY <1>4, OnlyEvolves DEF FlipMaster, Typed
  <2>2. QED
    BY <1>4, <2>1, RestStays, RequestsStay, TypedNext DEF FlipMaster, Typed, TypeOK
<1>5. ASSUME NEW r \in Resumes, Remove(r)
      PROVE  Typed'
  <2>1. \A q \in Resumes : resume'[q] = IF q = r THEN Deleted ELSE resume[q]
    BY <1>5 DEF Remove, Typed, TypeOK
  <2>2. Evolves
    BY <1>5, <2>1, MasterAssumption DEF Remove, Evolves, Typed, TypeOK, Ids, Live
  <2>3. Live' = Live \ {r}
    BY <2>1 DEF Live
  <2>4. /\ job' \in [Texts -> Jobs \cup {None}] /\ JobsFit'
        /\ \A t \in Texts : job'[t] # None =>
             /\ job[t] # None /\ job'[t].status = job[t].status
             /\ job'[t].resume \in {job[t].resume, None} /\ job'[t].resume \notin {r} \ {None}
    BY <1>5, <2>2, JobsForget DEF Remove
  <2>5. JobRefs'
    BY <2>3, <2>4 DEF JobRefs, Typed, TypeOK, LiveOrNone
  <2>6. \A t \in Texts : job[t] # None /\ job[t].status = "PROCESSING" =>
                           job'[t] # None /\ job'[t].status = "PROCESSING"
    BY <1>5, MasterAssumption DEF Remove, SetNull, Typed, TypeOK, Jobs
  <2>7. work' \in [Texts -> Copies \cup {None}] /\ WorkFits'
    BY <1>5, <2>2, <2>6, WorkStays DEF Remove
  <2>8. /\ designation' \in [text : Texts, resume : Resumes] \cup {None}
        /\ profile' \in Texts \cup {"empty", "cleared"}
    BY <1>5 DEF Remove, SupersededBy, Typed, TypeOK
  <2>9. QED
    BY <1>5, <2>2, <2>4, <2>5, <2>7, <2>8, RequestsStay, TypedNext DEF Remove, Typed, TypeOK
<1>6. QED
  BY <1>1, <1>2, <1>3, <1>4, <1>5 DEF Asking

\* What a request at some step carries.
LEMMA AtFits ==
  ASSUME Typed, NEW c \in Callers, request[c] # None
  PROVE  /\ request[c] \in Asks
         /\ Carries(request[c].resume, request[c].text)
         /\ request[c].step \in {"primary", "update", "link"} => request[c].resume \in Resumes
         /\ request[c].step \in {"primary", "update", "bare"} => request[c].seen \in Rows
         /\ request[c].step = "bare" =>
              request[c].seen.text = request[c].text /\ request[c].seen.master = FALSE
         /\ request[c].step = "upgrade" =>
              request[c].seen \in Jobs /\ Carries(request[c].seen.resume, request[c].text)
<1>1. PICK a \in Asks : request[c] = a
  BY DEF Typed, TypeOK
<1>2. Fits(a)
  BY <1>1 DEF Typed, RequestsFit
<1>3. QED
  BY <1>1, <1>2 DEF Fits

\* A request ends.
LEMMA FinishKeepsTyped ==
  ASSUME Typed, Evolves, Live \subseteq Live', UNCHANGED <<source, job, work, asks>>,
         designation' \in [text : Texts, resume : Resumes] \cup {None},
         profile' \in Texts \cup {"empty", "cleared"}, apart' \in BOOLEAN,
         NEW c \in Callers, Finish(c)
  PROVE  Typed'
<1>1. request' \in [Callers -> Asks \cup {None}] /\ RequestsFit'
  BY RequestGoes DEF Finish
<1>2. QED
  BY <1>1, RestStays, TypedNext DEF Typed, TypeOK

LEMMA CreateKeepsTyped ==
  ASSUME Typed, UNCHANGED asks, NEW c \in Callers, NEW r \in Resumes, CreateResume(c, r)
  PROVE  Typed'
<1> DEFINE t == request[c].text
<1>1. request[c] # None /\ request[c] \in Asks /\ resume[r] = Absent /\ r \notin Live
  BY AtFits DEF CreateResume, At, Idle, Live
<1>2. t \in Texts /\ NewRow(t, TRUE) \in Rows /\ NewRow(t, FALSE) \in Rows
  BY <1>1 DEF Asks, NewRow, Rows
<1>3. CASE resume' = [resume EXCEPT ![r] = NewRow(t, FALSE)] /\ Finish(c)
           /\ UNCHANGED <<designation, job>>
  <2>1. \A q \in Resumes : resume'[q] = IF q = r THEN NewRow(t, FALSE) ELSE resume[q]
    BY <1>3 DEF Typed, TypeOK
  <2>2. Evolves
    BY <1>1, <1>2, <1>3, <2>1, MasterAssumption DEF Evolves, Typed, TypeOK, Ids
  <2>3. Live \subseteq Live'
    BY <1>1, <2>1 DEF Live
  <2>4. QED
    BY <1>3, <2>2, <2>3, FinishKeepsTyped DEF CreateResume, Typed, TypeOK
<1>4. ASSUME NEW i \in {"PROMOTE_EXPLICIT", "PROMOTE_IF_FIRST"},
             resume' = [q \in Resumes |->
               IF q = r THEN NewRow(t, TRUE)
               ELSE IF q \in Live THEN Deleted ELSE resume[q]],
             designation' = SupersededBy(Live),
             SetNull(Live),
             request' = [request EXCEPT ![c].step = "enqueue",
                                        ![c].resume = r, ![c].intent = i]
      PROVE  Typed'
  <2>1. resume' \in [Resumes -> Ids]
    BY <1>2, <1>4 DEF Ids, Typed, TypeOK
  <2>2. Evolves
    BY <1>1, <1>2, <1>4, <2>1, MasterAssumption DEF Evolves, Live
  <2>3. Live' = {r}
    BY <1>2, <1>4, MasterAssumption DEF Live
  <2>4. /\ job' \in [Texts -> Jobs \cup {None}] /\ JobsFit'
        /\ \A u \in Texts : job'[u] # None =>
             /\ job[u] # None /\ job'[u].status = job[u].status
             /\ job'[u].resume \in {job[u].resume, None} /\ job'[u].resume \notin Live \ {None}
    BY <1>4, <2>2, JobsForget
  <2>5. JobRefs'
    BY <2>4 DEF JobRefs, Typed, TypeOK, LiveOrNone
  <2>6. \A u \in Texts : job[u] # None /\ job[u].status = "PROCESSING" =>
                           job'[u] # None /\ job'[u].status = "PROCESSING"
    BY <1>4, MasterAssumption DEF SetNull, Typed, TypeOK, Jobs
  <2>7. work' \in [Texts -> Copies \cup {None}] /\ WorkFits'
    BY <2>2, <2>6, WorkStays DEF CreateResume
  <2>8. PICK a \in Asks :
          a = [request[c] EXCEPT !.step = "enqueue", !.resume = r, !.intent = i]
    BY <1>1 DEF Asks, RequestSteps, Intents
  <2>9. Fits(a)'
    <3>1. a.text = t /\ a.resume = r /\ a.step = "enqueue"
      BY <1>1, <2>8 DEF Asks
    <3>2. resume'[r] = NewRow(t, TRUE)
      BY <1>4
    <3>3. resume'[r] # Absent
      BY <1>2, <3>2, MasterAssumption
    <3>4. resume'[r].text = a.text
      BY <3>1, <3>2 DEF NewRow
    <3>5. QED
      BY <3>1, <3>3, <3>4 DEF Fits, Carries, Known
  <2>10. request' = [request EXCEPT ![c] = a]
    BY <1>4, <2>8
  <2>11. request' \in [Callers -> Asks \cup {None}] /\ RequestsFit'
    BY <2>2, <2>8, <2>9, <2>10, RequestGoes
  <2>12. designation' \in [text : Texts, resume : Resumes] \cup {None}
    BY <1>4 DEF SupersededBy, Typed, TypeOK
  <2>13. QED
    BY <2>2, <2>4, <2>5, <2>7, <2>11, <2>12, TypedNext DEF CreateResume, Typed, TypeOK
<1>5. QED
  BY <1>3, <1>4 DEF CreateResume

LEMMA EnqueueKeepsTyped ==
  ASSUME Typed, UNCHANGED asks, NEW c \in Callers, Enqueue(c) \/ UpgradeJob(c)
  PROVE  Typed'
<1>0. PICK t : t = request[c].text
  OBVIOUS
<1>1. request[c] # None /\ request[c] \in Asks
      /\ Carries(request[c].resume, t) /\ t \in Texts
  <2>1. request[c] # None
    BY DEF Enqueue, UpgradeJob, Enqueues, At, Idle
  <2>2. QED
    BY <1>0, <2>1, AtFits DEF Asks
<1>2. UNCHANGED <<master, work>> /\ Evolves /\ Live' = Live
  BY Quiet DEF Enqueue, UpgradeJob, master, Typed
<1>3. source' \in [Texts -> {"none", "known", "ready"}]
  BY DEF Enqueue, UpgradeJob, Typed, TypeOK
<1>4. ASSUME NEW a \in Asks \cup {None}, request' = [request EXCEPT ![c] = a],
             a # None => a.text = t /\ a.resume = request[c].resume,
             a # None =>
               \/ a.step = "link" /\ a.resume \in Resumes
               \/ a.step = "upgrade" /\ a.seen \in Jobs /\ Carries(a.seen.resume, t)
      PROVE  request' \in [Callers -> Asks \cup {None}] /\ RequestsFit'
  <2>1. a # None => Fits(a)
    BY <1>1, <1>4 DEF Fits
  <2>2. a # None => Fits(a)'
    BY <1>2, <2>1, FitsStays DEF Typed
  <2>3. QED
    BY <1>2, <1>4, <2>2, RequestGoes
<1>5. ASSUME Linking(c)
      PROVE  request' \in [Callers -> Asks \cup {None}] /\ RequestsFit'
  <2>1. CASE request[c].resume = None
    BY <1>4, <1>5, <2>1 DEF Linking, Finish
  <2>2. CASE request[c].resume # None
    <3>1. PICK a \in Asks : a = [request[c] EXCEPT !.step = "link", !.seen = None]
      BY <1>1 DEF Asks, RequestSteps
    <3>2. /\ a.text = t /\ a.resume = request[c].resume
          /\ a.resume \in Resumes /\ a.step = "link"
      BY <1>0, <1>1, <2>2, <3>1 DEF Asks
    <3>3. request' = [request EXCEPT ![c] = a]
      BY <1>5, <2>2, <3>1 DEF Linking
    <3>4. QED
      BY <1>4, <3>2, <3>3
  <2>3. QED
    BY <2>1, <2>2
<1>6. ASSUME NEW j \in Jobs, job' = [job EXCEPT ![t] = j], Carries(j.resume, t),
             j.resume \in Live \cup {None},
             job[t] # None => j.status = job[t].status,
             request' \in [Callers -> Asks \cup {None}] /\ RequestsFit'
      PROVE  Typed'
  <2>1. Carries(j.resume, t)'
    BY <1>2, <1>6, KnownStays DEF Typed
  <2>2. job' \in [Texts -> Jobs \cup {None}] /\ JobsFit'
    BY <1>1, <1>2, <1>6, <2>1, JobGoes
  <2>3. \A u \in Texts : job'[u] = IF u = t THEN j ELSE job[u]
    BY <1>1, <1>6 DEF Typed, TypeOK
  <2>4. JobRefs'
    BY <1>2, <1>6, <2>3 DEF JobRefs, Typed, TypeOK, LiveOrNone
  <2>5. \A u \in Texts : job[u] # None /\ job[u].status = "PROCESSING" =>
                           job'[u] # None /\ job'[u].status = "PROCESSING"
    BY <1>6, <2>3, MasterAssumption
  <2>6. work' \in [Texts -> Copies \cup {None}] /\ WorkFits'
    BY <1>2, <2>5, WorkStays
  <2>7. QED
    BY <1>2, <1>3, <1>6, <2>2, <2>4, <2>6, TypedNext DEF master, Typed, TypeOK
<1>7. ASSUME UNCHANGED job, request' \in [Callers -> Asks \cup {None}] /\ RequestsFit'
      PROVE  Typed'
  BY <1>2, <1>3, <1>7, RestStays, TypedNext DEF master, Typed, TypeOK
<1>8. CASE Enqueue(c)
  <2>1. CASE /\ job[t] = None /\ LiveOrNone(request[c].resume)
             /\ job' = [job EXCEPT ![t] = [status |-> "PENDING",
                        intent |-> request[c].intent, resume |-> request[c].resume]]
             /\ Linking(c)
    <3>1. PICK j \in Jobs : j = [status |-> "PENDING", intent |-> request[c].intent,
                                 resume |-> request[c].resume]
      BY <1>1 DEF Asks, Jobs
    <3>2. QED
      BY <1>1, <1>5, <1>6, <2>1, <3>1 DEF LiveOrNone
  <2>2. CASE /\ job[t] # None /\ UNCHANGED job
             /\ request' = [request EXCEPT ![c].step = "upgrade", ![c].seen = job[t]]
    <3>1. PICK j \in Jobs : job[t] = j
      BY <1>1, <2>2 DEF Typed, TypeOK
    <3>2. Carries(j.resume, t)
      BY <1>1, <3>1 DEF Typed, JobsFit
    <3>3. PICK a \in Asks : a = [request[c] EXCEPT !.step = "upgrade", !.seen = j]
      BY <1>1 DEF Asks, RequestSteps
    <3>4. /\ a.text = t /\ a.resume = request[c].resume
          /\ a.step = "upgrade" /\ a.seen = j
      BY <1>0, <1>1, <3>3 DEF Asks
    <3>5. request' = [request EXCEPT ![c] = a]
      BY <2>2, <3>1, <3>3
    <3>6. QED
      BY <1>4, <1>7, <2>2, <3>2, <3>4, <3>5
  <2>3. CASE Linking(c) /\ UNCHANGED job
    BY <1>5, <1>7, <2>3
  <2>4. QED
    BY <1>0, <1>8, <2>1, <2>2, <2>3 DEF Enqueue
<1>9. CASE UpgradeJob(c)
  <2> DEFINE intent == IF request[c].intent # "NONE" THEN request[c].intent
                       ELSE request[c].seen.intent
             carried == IF request[c].seen.resume # None THEN request[c].seen.resume
                        ELSE request[c].resume
  <2>1. request[c].seen \in Jobs /\ Carries(request[c].seen.resume, t)
    BY <1>0, <1>1, <1>9, AtFits DEF UpgradeJob, At
  <2>2. /\ carried = None \/ carried \in Live
        /\ job' = IF job[t] = None THEN job
                  ELSE [job EXCEPT ![t].intent = intent, ![t].resume = carried]
        /\ Linking(c)
    BY <1>0, <1>9 DEF UpgradeJob, LiveOrNone
  <2>3. CASE job[t] = None
    BY <1>5, <1>7, <2>2, <2>3
  <2>4. CASE job[t] # None
    <3>1. job[t] \in Jobs
      BY <1>1, <2>4 DEF Typed, TypeOK
    <3>2. intent \in Intents /\ carried \in Resumes \cup {None} /\ Carries(carried, t)
      BY <1>1, <2>1 DEF Asks, Jobs
    <3>3. PICK j \in Jobs : j = [job[t] EXCEPT !.intent = intent, !.resume = carried]
      BY <3>1, <3>2 DEF Jobs
    <3>4. j.resume = carried /\ j.status = job[t].status
      BY <3>1, <3>3 DEF Jobs
    <3>5. job' = [job EXCEPT ![t] = j]
      BY <2>2, <2>4, <3>3
    <3>6. QED
      BY <1>5, <1>6, <2>2, <3>2, <3>4, <3>5
  <2>5. QED
    BY <2>3, <2>4
<1>10. QED
  BY <1>8, <1>9

LEMMA BareKeepsTyped ==
  ASSUME Typed, UNCHANGED asks, NEW c \in Callers, NEW r \in Resumes, CreateBare(c, r)
  PROVE  Typed'
<1>1. /\ request[c] \in Asks /\ request[c].seen \in Rows
      /\ request[c].seen.text = request[c].text
  BY AtFits DEF CreateBare, At, Idle
<1>2. \A q \in Resumes : resume'[q] = IF q = r THEN request[c].seen ELSE resume[q]
  BY DEF CreateBare, Typed, TypeOK
<1>3. Evolves /\ Live \subseteq Live'
  <2>1. resume' \in [Resumes -> Ids]
    BY <1>1 DEF CreateBare, Ids, Typed, TypeOK
  <2>2. QED
    BY <1>1, <1>2, <2>1, MasterAssumption DEF CreateBare, Evolves, Live
<1>4. PICK a \in Asks :
        a = [request[c] EXCEPT !.step = "enqueue", !.resume = r, !.seen = None]
  BY <1>1 DEF Asks, RequestSteps
<1>5. a.step = "enqueue" /\ a.resume = r /\ a.text = request[c].text
  BY <1>1, <1>4 DEF Asks
<1>6. Fits(a)'
  <2>1. resume'[r] # Absent /\ resume'[r].text = a.text
    BY <1>1, <1>2, <1>5, MasterAssumption
  <2>2. QED
    BY <1>5, <2>1 DEF Fits, Carries, Known
<1>7. request' = [request EXCEPT ![c] = a]
  BY <1>4 DEF CreateBare
<1>8. request' \in [Callers -> Asks \cup {None}] /\ RequestsFit'
  BY <1>3, <1>6, <1>7, RequestGoes
<1>9. QED
  BY <1>3, <1>8, RestStays, TypedNext DEF CreateBare, Typed, TypeOK

LEMMA FindKeepsTyped ==
  ASSUME Typed, UNCHANGED asks, NEW c \in Callers, FindResume(c)
  PROVE  Typed'
<1>1. request[c] \in Asks
  BY AtFits DEF FindResume, At, Idle
<1>2. UNCHANGED <<master, source, job, work>>
  BY DEF FindResume
<1>3. ASSUME NEW r \in Live, Of(r, request[c].text),
             request' = [request EXCEPT ![c].step = "enqueue", ![c].resume = r]
      PROVE  Typed'
  <2>1. PICK a \in Asks : a = [request[c] EXCEPT !.step = "enqueue", !.resume = r]
    BY <1>1 DEF Asks, RequestSteps, Live
  <2>2. a.step = "enqueue" /\ a.resume = r /\ a.text = request[c].text
    BY <1>1, <2>1 DEF Asks
  <2>3. Fits(a)
    BY <1>3, <2>2 DEF Fits, Carries, Known, Of, Live
  <2>4. request' = [request EXCEPT ![c] = a]
    BY <1>3, <2>1
  <2>5. QED
    BY <1>2, <2>3, <2>4, RequestKeepsTyped DEF master, Typed, TypeOK
<1>4. ASSUME request' = [request EXCEPT ![c].step = "bare", ![c].seen =
               [text |-> request[c].text, linked |-> source[request[c].text] # "none",
                raw |-> FALSE, master |-> FALSE]]
      PROVE  Typed'
  <2> DEFINE row == [text |-> request[c].text, linked |-> source[request[c].text] # "none",
                     raw |-> FALSE, master |-> FALSE]
  <2>1. row \in Rows
    BY <1>1 DEF Asks, Rows
  <2>2. PICK a \in Asks : a = [request[c] EXCEPT !.step = "bare", !.seen = row]
    BY <1>1, <2>1 DEF Asks, RequestSteps
  <2>3. /\ a.step = "bare" /\ a.seen = row /\ a.text = request[c].text
        /\ a.resume = request[c].resume
    BY <1>1, <2>2 DEF Asks
  <2>4. Carries(request[c].resume, request[c].text)
    BY AtFits DEF FindResume, At, Idle
  <2>5. Fits(a)
    BY <2>1, <2>3, <2>4 DEF Fits
  <2>6. request' = [request EXCEPT ![c] = a]
    BY <1>4, <2>2
  <2>7. QED
    BY <1>2, <2>5, <2>6, RequestKeepsTyped DEF master, Typed, TypeOK
<1>5. QED
  BY <1>3, <1>4 DEF FindResume

LEMMA AnsweringKeepsTyped ==
  ASSUME Typed, UNCHANGED asks, NEW c \in Callers, Answering(c)
  PROVE  Typed'
<1>1. CASE PromoteNow(c)
  <2>1. /\ request[c] \in Asks /\ Carries(request[c].resume, request[c].text)
        /\ request[c].text \in Texts /\ request[c].resume \in Resumes \cup {None}
    BY <1>1, AtFits DEF PromoteNow, At, Idle, Asks
  <2>2. /\ Evolves /\ Live' = Live
        /\ designation' \in [text : Texts, resume : Resumes] \cup {None}
        /\ profile' \in Texts \cup {"empty", "cleared"} /\ apart' \in BOOLEAN
    BY <1>1, <2>1, PromotionEvolves DEF PromoteNow, Typed
  <2>3. QED
    BY <1>1, <2>2, FinishKeepsTyped DEF PromoteNow
<1>2. CASE Link(c)
  <2>1. request[c].resume \in Live /\ resume[request[c].resume] \in Rows
    BY <1>2, LiveRows DEF Link, Typed
  <2>2. PICK row \in Rows : row = [resume[request[c].resume] EXCEPT !.linked = TRUE]
    BY <2>1 DEF Rows
  <2>3. row.text = resume[request[c].resume].text
    BY <2>1, <2>2 DEF Rows
  <2>4. resume' = [resume EXCEPT ![request[c].resume] = row]
    BY <1>2, <2>2 DEF Link
  <2>5. Evolves /\ Live' = Live
    BY <2>1, <2>3, <2>4, RowEvolves DEF Typed
  <2>6. QED
    BY <1>2, <2>5, FinishKeepsTyped DEF Link, Typed, TypeOK
<1>3. CASE Update(c)
  <2>1. request[c].resume \in Live /\ resume[request[c].resume] \in Rows
    BY <1>3, LiveRows DEF Update, Typed
  <2>2. PICK row \in Rows : row = [resume[request[c].resume] EXCEPT !.master = FALSE]
    BY <2>1 DEF Rows
  <2>3. row.text = resume[request[c].resume].text
    BY <2>1, <2>2 DEF Rows
  <2>4. \/ resume' = Only(request[c].resume)
        \/ resume' = [resume EXCEPT ![request[c].resume] = row]
    BY <1>3, <2>2 DEF Update
  <2>5. request[c].resume \in Resumes
    BY <2>1 DEF Live
  <2>6. Evolves /\ Live' = Live
    BY <2>1, <2>3, <2>4, <2>5, RowEvolves, OnlyEvolves DEF Typed
  <2>7. apart' \in BOOLEAN
    BY <1>3 DEF Update, Typed, TypeOK
  <2>8. QED
    BY <1>3, <2>6, <2>7, FinishKeepsTyped DEF Update, Typed, TypeOK
<1>4. CASE RequestFails(c)
  BY <1>4, Quiet, FinishKeepsTyped DEF RequestFails, master, Typed, TypeOK
<1>5. QED
  BY <1>1, <1>2, <1>3, <1>4, CreateKeepsTyped, BareKeepsTyped, FindKeepsTyped,
     EnqueueKeepsTyped DEF Answering

LEMMA WorkingKeepsTyped ==
  ASSUME Typed, UNCHANGED asks, NEW t \in Texts, Working(t)
  PROVE  Typed'
<1>1. UNCHANGED request
  BY DEF Working, Claim, Extract, Promote, MarkReady, GiveUp
<1>2. ASSUME UNCHANGED <<master, source>>, NEW j \in Jobs \cup {None}, NEW w \in Copies \cup {None},
             job' = [job EXCEPT ![t] = j], work' = [work EXCEPT ![t] = w],
             job[t] \in Jobs, j # None => j.resume = job[t].resume,
             w # None => w.resume = job[t].resume /\ j # None /\ j.status = "PROCESSING"
      PROVE  Typed'
  <2>1. Evolves /\ Live' = Live
    BY <1>2, Quiet DEF master, Typed
  <2>2. PICK i \in Jobs : i = job[t]
    BY <1>2
  <2>3. Carries(i.resume, t)'
    BY <2>1, <2>2, KnownStays DEF Typed, JobsFit
  <2>4. job' \in [Texts -> Jobs \cup {None}] /\ JobsFit'
    BY <1>2, <2>1, <2>2, <2>3, JobGoes
  <2>5. \A u \in Texts : job'[u] = IF u = t THEN j ELSE job[u]
    BY <1>2 DEF Typed, TypeOK
  <2>6. JobRefs'
    BY <1>2, <2>1, <2>5, MasterAssumption DEF JobRefs, Typed, TypeOK, LiveOrNone
  <2>7. work' \in [Texts -> Copies \cup {None}] /\ WorkFits'
    <3>1. w # None => Carries(w.resume, t)'
      BY <1>2, <2>2, <2>3
    <3>2. w # None => job'[t] # None /\ job'[t].status = "PROCESSING"
      BY <1>2, <2>5
    <3>3. \A u \in Texts \ {t} : job'[u] = job[u]
      BY <2>5
    <3>4. QED
      BY <1>2, <2>1, <3>1, <3>2, <3>3, WorkGoes
  <2>8. QED
    BY <1>1, <1>2, <2>1, <2>4, <2>6, <2>7, RequestsStay, TypedNext DEF master, Typed, TypeOK
<1>3. CASE Claim(t)
  <2>1. job[t] \in Jobs
    BY <1>3 DEF Claim, Typed, TypeOK
  <2>2. PICK j \in Jobs : j = [job[t] EXCEPT !.status = "PROCESSING"]
    BY <2>1 DEF Jobs
  <2>3. PICK w \in Copies :
          w = [step |-> "extract", intent |-> job[t].intent, resume |-> job[t].resume]
    BY <2>1 DEF Jobs, Copies
  <2>4. j.resume = job[t].resume /\ j.status = "PROCESSING" /\ w.resume = job[t].resume
    BY <2>1, <2>2, <2>3 DEF Jobs
  <2>5. job' = [job EXCEPT ![t] = j] /\ work' = [work EXCEPT ![t] = w]
    BY <1>3, <2>2, <2>3 DEF Claim
  <2>6. QED
    BY <1>2, <1>3, <2>1, <2>4, <2>5, MasterAssumption DEF Claim
<1>4. CASE MarkReady(t) \/ GiveUp(t)
  <2>1. work[t] \in Copies /\ job[t] \in Jobs
    BY <1>4 DEF MarkReady, GiveUp, WorkAt, Typed, TypeOK, WorkFits
  <2>2. CASE job' = [job EXCEPT ![t].status = "PENDING"] /\ GiveUp(t)
    <3>1. PICK j \in Jobs : j = [job[t] EXCEPT !.status = "PENDING"]
      BY <2>1 DEF Jobs
    <3>2. j.resume = job[t].resume /\ job' = [job EXCEPT ![t] = j]
      BY <2>1, <2>2, <3>1 DEF Jobs
    <3>3. work' = [work EXCEPT ![t] = None] /\ UNCHANGED <<master, source>>
      BY <2>2 DEF GiveUp
    <3>4. QED
      BY <1>2, <2>1, <3>2, <3>3
  <2>3. CASE job' = [job EXCEPT ![t] = None]
    BY <1>2, <1>4, <2>1, <2>3 DEF MarkReady, GiveUp
  <2>4. QED
    BY <1>4, <2>2, <2>3 DEF MarkReady, GiveUp
<1>5. ASSUME Evolves, Live' = Live, UNCHANGED job,
             designation' \in [text : Texts, resume : Resumes] \cup {None},
             profile' \in Texts \cup {"empty", "cleared"}, apart' \in BOOLEAN,
             source' \in [Texts -> {"none", "known", "ready"}],
             NEW x \in Copies, work[t] = x,
             NEW w \in Copies, w.resume = x.resume, work' = [work EXCEPT ![t] = w]
      PROVE  Typed'
  <2>1. Carries(x.resume, t) /\ job[t] # None /\ job[t].status = "PROCESSING"
    BY <1>5 DEF Typed, WorkFits
  <2>2. Carries(x.resume, t)'
    BY <1>5, <2>1, KnownStays DEF Typed
  <2>3. work' \in [Texts -> Copies \cup {None}] /\ WorkFits'
    BY <1>5, <2>1, <2>2, WorkGoes
  <2>4. job' \in [Texts -> Jobs \cup {None}] /\ JobsFit'
    BY <1>5, JobsStay
  <2>5. JobRefs'
    BY <1>5 DEF JobRefs, Typed, TypeOK, LiveOrNone
  <2>6. QED
    BY <1>1, <1>5, <2>3, <2>4, <2>5, RequestsStay, TypedNext DEF Typed, TypeOK
<1>6. CASE Extract(t) \/ Promote(t)
  <2>1. PICK x \in Copies : work[t] = x
    BY <1>6 DEF Extract, Promote, WorkAt, Typed, TypeOK
  <2>2. PICK s \in {"promote", "ready"} : work' = [work EXCEPT ![t].step = s]
    BY <1>6, <2>1 DEF Extract, Promote
  <2>3. PICK w \in Copies : w = [x EXCEPT !.step = s]
    BY DEF Copies
  <2>4. w.resume = x.resume /\ work' = [work EXCEPT ![t] = w]
    BY <2>1, <2>2, <2>3 DEF Copies
  <2>5. CASE Extract(t)
    <3>1. UNCHANGED <<master, job>> /\ source' \in [Texts -> {"none", "known", "ready"}]
      BY <2>5 DEF Extract, Typed, TypeOK
    <3>2. Evolves /\ Live' = Live
      BY <3>1, Quiet DEF master, Typed
    <3>3. QED
      BY <1>5, <2>1, <2>4, <3>1, <3>2 DEF master, Typed, TypeOK
  <2>6. CASE Promote(t)
    <3>1. x.resume \in Resumes \cup {None}
      BY DEF Copies
    <3>2. /\ Evolves /\ Live' = Live
          /\ designation' \in [text : Texts, resume : Resumes] \cup {None}
          /\ profile' \in Texts \cup {"empty", "cleared"} /\ apart' \in BOOLEAN
      BY <2>1, <2>6, <3>1, PromotionEvolves DEF Promote, Typed
    <3>3. QED
      BY <1>5, <2>1, <2>4, <2>6, <3>2 DEF Promote, Typed, TypeOK
  <2>7. QED
    BY <1>6, <2>5, <2>6
<1>7. QED
  BY <1>3, <1>4, <1>6 DEF Working

LEMMA TypedHolds == Spec => []Typed
<1>1. Init => Typed
  <2> SUFFICES ASSUME Init PROVE Typed
    OBVIOUS
  <2>1. RequestsFit /\ JobsFit /\ WorkFits
    BY MasterAssumption DEF Init, RequestsFit, JobsFit, WorkFits
  <2>2. asks \in 0..MaxAsks
    BY MasterAssumption DEF Init
  <2>3. QED
    BY <2>1, <2>2 DEF Init, Typed, TypeOK
<1>2. Typed /\ [Next]_vars => Typed'
  <2> SUFFICES ASSUME Typed, [Next]_vars PROVE Typed'
    OBVIOUS
  <2>1. CASE UNCHANGED vars
    <3>1. Evolves /\ Live' = Live
      BY <2>1, Quiet DEF vars, Typed
    <3>2. QED
      BY <2>1, <3>1, RestStays, RequestsStay, TypedNext DEF vars, Typed, TypeOK
  <2>2. CASE Asking /\ Asked
    BY <2>2, AskingKeepsTyped, MasterAssumption DEF Asked, Typed, TypeOK
  <2>3. QED
    BY <2>1, <2>2, AnsweringKeepsTyped, WorkingKeepsTyped DEF Next
<1>3. QED
  BY <1>1, <1>2, PTL DEF Spec

\* Every variable keeps its type, and a job never names a resume that is
\* gone, for any number of texts, resumes and requests.
THEOREM TypeCorrect == Spec => []TypeOK
<1>1. Typed => TypeOK
  BY DEF Typed
<1>2. QED
  BY <1>1, TypedHolds, PTL

----------------------------------------------------------------------------
(* The formal invariant, and the choice that the user is promised: one     *)
(* lemma per way in which the Master block changes.                        *)

ChoiceStep ==
  \/ \E S \in SUBSET Resumes : Choice!Change(S)
  \/ \E m \in Choice!Masters : Choice!Take(m) \/ Choice!Replace(m)
  \/ Live' = Live /\ UNCHANGED designation

\* isMaster moves to r, and the designation with it or not.
LEMMA FlagMoves ==
  ASSUME TypeOK, NEW r \in Live, resume' = Only(r)
  PROVE  /\ Live' = Live
         /\ \A q \in Live : resume'[q].text = resume[q].text
         /\ \A q \in Live : resume'[q].master <=> q = r
<1>1. \A q \in Live : resume[q] \in Rows
  BY LiveRows
<1>2. r \in Resumes
  BY DEF Live
<1>3. Live' = Live /\ \A q \in Live : resume'[q] = [resume[q] EXCEPT !.master = (q = r)]
  BY <1>2, OnlyEvolves
<1>4. ASSUME NEW q \in Live
      PROVE  resume'[q].text = resume[q].text /\ (resume'[q].master <=> q = r)
  <2>1. resume[q] \in Rows /\ resume'[q] = [resume[q] EXCEPT !.master = (q = r)]
    BY <1>1, <1>3
  <2>2. resume'[q].text = resume[q].text
    BY ONLY <2>1 DEF Rows
  <2>3. resume'[q].master = (q = r)
    BY ONLY <2>1 DEF Rows
  <2>4. QED
    BY ONLY <2>2, <2>3
<1>5. QED
  BY <1>3, <1>4

USE DEF FormalInvariant, DesignationIsSound, ProfileFollowsMaster, IsMaster, Of

LEMMA MasterStays ==
  ASSUME FormalInvariant, UNCHANGED <<resume, designation, apart>>,
         profile' \in {profile, "cleared"}
  PROVE  FormalInvariant' /\ ChoiceStep
BY DEF ChoiceStep, Live

LEMMA PromotionIsChosen ==
  ASSUME Typed, FormalInvariant, NEW t \in Texts, NEW r \in Resumes \cup {None}, NEW i,
         Carries(r, t), i = "PROMOTE_EXPLICIT" => t \in Wanted,
         PromoteAndProject(t, r, i)
  PROVE  FormalInvariant' /\ ChoiceStep
<1>1. CASE ~(Wins(t, i) /\ r # None)
  BY <1>1, MasterStays DEF PromoteAndProject, master
<1>2. CASE Wins(t, i) /\ r # None
  <2>1. /\ r \in Live /\ resume[r].text = t /\ resume' = Only(r)
        /\ designation' = [text |-> t, resume |-> r]
        /\ profile' = IF Active(t) THEN profile ELSE t
    BY <1>2 DEF PromoteAndProject, PromotionThrows, Designated, Carries, Known
  <2>2. /\ Live' = Live
        /\ \A q \in Live : resume'[q].text = resume[q].text
        /\ \A q \in Live : resume'[q].master <=> q = r
    BY <2>1, FlagMoves DEF Typed
  <2>3. DesignationIsSound'
    BY <2>1, <2>2
  <2>4. ProfileFollowsMaster'
    BY <2>1 DEF Active
  <2>5. ChoiceStep
    <3> DEFINE m == [text |-> t, resume |-> r]
    <3>1. m \in Choice!Masters
      BY <2>1 DEF Choice!Masters
    <3>2. CASE designation = None \/ Active(t)
      <4>1. Choice!Take(m)
        BY <2>1, <2>2, <3>2 DEF Choice!Take, Active
      <4>2. QED
        BY <3>1, <4>1 DEF ChoiceStep
    <3>3. CASE i = "PROMOTE_EXPLICIT"
      <4>1. Choice!Replace(m)
        BY <2>1, <2>2, <3>3 DEF Choice!Replace
      <4>2. QED
        BY <3>1, <4>1 DEF ChoiceStep
    <3>4. QED
      BY <1>2, <3>2, <3>3 DEF Wins
  <2>6. QED
    BY <2>3, <2>4, <2>5
<1>3. QED
  BY <1>1, <1>2

\* A new resume that is not Master.
LEMMA RowAdded ==
  ASSUME Typed, FormalInvariant, UNCHANGED <<designation, profile, apart>>,
         NEW r \in Resumes, resume[r] = Absent, NEW row \in Rows, row.master = FALSE,
         resume' = [resume EXCEPT ![r] = row]
  PROVE  FormalInvariant' /\ ChoiceStep
<1>1. \A q \in Resumes : resume'[q] = IF q = r THEN row ELSE resume[q]
  BY DEF Typed, TypeOK
<1>2. Live' = Live \cup {r} /\ r \notin Live
  BY <1>1, MasterAssumption DEF Live
<1>3. DesignationIsSound'
  BY <1>1, <1>2
<1>4. Choice!Change(Live \cup {r})
  BY <1>2 DEF Choice!Change
<1>5. Live \cup {r} \in SUBSET Resumes
  BY DEF Live
<1>6. QED
  BY <1>3, <1>4, <1>5 DEF ChoiceStep

LEMMA CreateIsChosen ==
  ASSUME Typed, FormalInvariant, NEW c \in Callers, NEW r \in Resumes, CreateResume(c, r)
  PROVE  FormalInvariant' /\ ChoiceStep
<1> DEFINE t == request[c].text
<1>1. request[c] # None /\ request[c] \in Asks /\ resume[r] = Absent /\ r \notin Live
  BY AtFits DEF CreateResume, At, Idle, Live
<1>2. NewRow(t, TRUE) \in Rows /\ NewRow(t, FALSE) \in Rows /\ NewRow(t, FALSE).master = FALSE
  BY <1>1 DEF Asks, NewRow, Rows
<1>3. CASE resume' = [resume EXCEPT ![r] = NewRow(t, FALSE)] /\ UNCHANGED designation
  BY <1>1, <1>2, <1>3, RowAdded DEF CreateResume
<1>4. CASE /\ resume' = [q \in Resumes |->
                IF q = r THEN NewRow(t, TRUE)
                ELSE IF q \in Live THEN Deleted ELSE resume[q]]
           /\ designation' = SupersededBy(Live)
  <2>1. Live' = {r}
    BY <1>2, <1>4, MasterAssumption DEF Live
  <2>2. designation' = None /\ (designation # None => designation.resume \in Live)
    BY <1>4 DEF SupersededBy
  <2>3. FormalInvariant'
    BY <2>1, <2>2
  <2>4. Choice!Change({r})
    BY <1>1, <2>1, <2>2 DEF Choice!Change
  <2>5. QED
    BY <2>3, <2>4 DEF ChoiceStep
<1>5. QED
  BY <1>3, <1>4 DEF CreateResume

LEMMA BareIsChosen ==
  ASSUME Typed, FormalInvariant, NEW c \in Callers, NEW r \in Resumes, CreateBare(c, r)
  PROVE  FormalInvariant' /\ ChoiceStep
<1>1. request[c].seen \in Rows /\ request[c].seen.master = FALSE
  BY AtFits DEF CreateBare, At, Idle
<1>2. QED
  BY <1>1, RowAdded DEF CreateBare

LEMMA RemoveIsChosen ==
  ASSUME Typed, FormalInvariant, NEW r \in Resumes, Remove(r)
  PROVE  FormalInvariant' /\ ChoiceStep
<1>1. \A q \in Resumes : resume'[q] = IF q = r THEN Deleted ELSE resume[q]
  BY DEF Remove, Typed, TypeOK
<1>2. Live' = Live \ {r}
  BY <1>1 DEF Live
<1>3. /\ designation' = IF designation # None /\ designation.resume = r THEN None ELSE designation
      /\ profile' = IF designation # None /\ designation.resume = r THEN "empty" ELSE profile
      /\ apart' = apart
  BY DEF Remove, SupersededBy, MasterGoes
<1>a. \A q \in Live : q # r => q \in Live' /\ resume'[q] = resume[q]
  BY <1>1, <1>2 DEF Live
<1>4. DesignationIsSound'
  <2>1. \A p, q \in Resumes : IsMaster(p)' /\ IsMaster(q)' => p = q
    BY <1>a, <1>2
  <2>2. CASE designation' = None
    BY <2>1, <2>2
  <2>3. CASE designation' # None
    <3>1. designation' = designation /\ designation # None /\ designation.resume # r
      BY <1>3, <2>3
    <3>2. designation.resume \in Live' /\ resume'[designation.resume] = resume[designation.resume]
      BY <1>a, <3>1
    <3>3. QED
      BY <1>3, <2>1, <3>1, <3>2
  <2>4. QED
    BY <2>2, <2>3
<1>5. ProfileFollowsMaster'
  BY <1>3
<1>6. Choice!Change(Live \ {r})
  BY <1>2, <1>3 DEF Choice!Change
<1>7. Live \ {r} \in SUBSET Resumes
  BY DEF Live
<1>8. QED
  BY <1>4, <1>5, <1>6, <1>7 DEF ChoiceStep

\* The writes of isMaster that leave the designation alone.
LEMMA FlagIsNotChosen ==
  ASSUME Typed, FormalInvariant, NEW r \in Live,
         UNCHANGED <<designation, profile>>,
         apart' = TRUE \/ (resume' = resume /\ apart' = apart),
         \/ resume' = Only(r)
         \/ resume' = [resume EXCEPT ![r].master = FALSE]
  PROVE  FormalInvariant' /\ ChoiceStep
<1>1. CASE resume' = resume /\ apart' = apart
  BY <1>1, MasterStays
<1>2. CASE apart' = TRUE /\ resume' = Only(r)
  <2>1. /\ Live' = Live
        /\ \A q \in Live : resume'[q].text = resume[q].text
        /\ \A q \in Live : resume'[q].master <=> q = r
    BY <1>2, FlagMoves DEF Typed
  <2>2. QED
    BY <1>2, <2>1 DEF ChoiceStep
<1>3. CASE apart' = TRUE /\ resume' = [resume EXCEPT ![r].master = FALSE]
  <2>1. resume[r] \in Rows
    BY LiveRows DEF Typed
  <2>2. PICK row \in Rows : row = [resume[r] EXCEPT !.master = FALSE]
    BY <2>1 DEF Rows
  <2>3. row.text = resume[r].text /\ row.master = FALSE
    BY <2>1, <2>2 DEF Rows
  <2>4. resume' = [resume EXCEPT ![r] = row]
    BY <1>3, <2>2
  <2>5. Live' = Live
    BY <2>3, <2>4, RowEvolves DEF Typed
  <2>6. \A q \in Resumes : resume'[q] = IF q = r THEN row ELSE resume[q]
    BY <2>4 DEF Typed, TypeOK
  <2>7. QED
    BY <1>3, <2>3, <2>5, <2>6 DEF ChoiceStep
<1>4. QED
  BY <1>1, <1>2, <1>3

LEMMA LinkIsNotChosen ==
  ASSUME Typed, FormalInvariant, NEW c \in Callers, Link(c)
  PROVE  FormalInvariant' /\ ChoiceStep
<1>1. PICK r \in Live : r = request[c].resume
  BY DEF Link
<1>2. resume[r] \in Rows
  BY LiveRows DEF Typed
<1>3. PICK row \in Rows : row = [resume[r] EXCEPT !.linked = TRUE]
  BY <1>2 DEF Rows
<1>4. row.text = resume[r].text /\ row.master = resume[r].master
  BY <1>2, <1>3 DEF Rows
<1>5. resume' = [resume EXCEPT ![r] = row]
  BY <1>1, <1>3 DEF Link
<1>6. Live' = Live
  BY <1>4, <1>5, RowEvolves DEF Typed
<1>7. \A q \in Resumes : resume'[q] = IF q = r THEN row ELSE resume[q]
  BY <1>5 DEF Typed, TypeOK
<1>8. QED
  BY <1>4, <1>6, <1>7 DEF Link, ChoiceStep

LEMMA StepIsChosen ==
  ASSUME Typed, FormalInvariant, [Next]_vars
  PROVE  FormalInvariant' /\ ChoiceStep
<1>1. CASE UNCHANGED vars
  BY <1>1, MasterStays DEF vars
<1>2. ASSUME NEW c \in Callers, NEW t \in Texts, NEW b \in BOOLEAN,
             StartCreate(c, t, b) \/ Analyse(c, t, b)
      PROVE  FormalInvariant' /\ ChoiceStep
  BY <1>2, MasterStays DEF StartCreate, Analyse, master
<1>3. ASSUME NEW c \in Callers, NEW r \in Resumes, SetPrimary(c, r) \/ StartUpdate(c, r)
      PROVE  FormalInvariant' /\ ChoiceStep
  BY <1>3, MasterStays DEF SetPrimary, StartUpdate, master
<1>4. ASSUME NEW r \in Resumes, FlipMaster(r)
      PROVE  FormalInvariant' /\ ChoiceStep
  <2>1. /\ r \in Live /\ resume' = Only(r) /\ apart' = TRUE
        /\ UNCHANGED <<designation, profile>>
    BY <1>4 DEF FlipMaster
  <2>2. QED
    BY <2>1, FlagIsNotChosen
<1>5. ASSUME NEW c \in Callers, PromoteNow(c)
      PROVE  FormalInvariant' /\ ChoiceStep
  <2>1. /\ request[c] # None /\ request[c] \in Asks
        /\ Carries(request[c].resume, request[c].text)
    BY <1>5, AtFits DEF PromoteNow, At, Idle
  <2>2. /\ request[c].text \in Texts /\ request[c].resume \in Resumes \cup {None}
        /\ request[c].intent = "PROMOTE_EXPLICIT" => request[c].text \in Wanted
    BY <2>1 DEF Asks, Wanted, Idle
  <2>3. QED
    BY <1>5, <2>1, <2>2, PromotionIsChosen DEF PromoteNow
<1>6. ASSUME NEW t \in Texts, Promote(t)
      PROVE  FormalInvariant' /\ ChoiceStep
  <2>1. PICK x \in Copies : work[t] = x
    BY <1>6 DEF Promote, WorkAt, Typed, TypeOK
  <2>2. Carries(x.resume, t)
    BY <2>1 DEF Typed, WorkFits
  <2>3. /\ x.resume \in Resumes \cup {None}
        /\ x.intent = "PROMOTE_EXPLICIT" => t \in Wanted
    BY <2>1, MasterAssumption DEF Copies, Wanted
  <2>4. QED
    BY <1>6, <2>1, <2>2, <2>3, PromotionIsChosen DEF Promote
<1>7. ASSUME NEW t \in Texts, Claim(t) \/ Extract(t) \/ MarkReady(t) \/ GiveUp(t)
      PROVE  FormalInvariant' /\ ChoiceStep
  BY <1>7, MasterStays DEF Claim, Extract, MarkReady, GiveUp, master
<1>8. ASSUME NEW c \in Callers,
             FindResume(c) \/ Enqueue(c) \/ UpgradeJob(c) \/ RequestFails(c)
      PROVE  FormalInvariant' /\ ChoiceStep
  BY <1>8, MasterStays DEF FindResume, Enqueue, UpgradeJob, RequestFails, master
<1>9. ASSUME NEW c \in Callers, Update(c)
      PROVE  FormalInvariant' /\ ChoiceStep
  <2>1. PICK r \in Live : r = request[c].resume
    BY <1>9 DEF Update
  <2>2. apart' = TRUE \/ (resume' = resume /\ apart' = apart)
    BY <1>9 DEF Update, Typed, TypeOK
  <2>3. \/ resume' = Only(r)
        \/ resume' = [resume EXCEPT ![r].master = FALSE]
    BY <1>9, <2>1 DEF Update
  <2>4. UNCHANGED <<designation, profile>>
    BY <1>9 DEF Update
  <2>5. QED
    BY <2>1, <2>2, <2>3, <2>4, FlagIsNotChosen
<1>10. QED
  BY <1>1, <1>2, <1>3, <1>4, <1>5, <1>6, <1>7, <1>8, <1>9,
     CreateIsChosen, BareIsChosen, RemoveIsChosen, LinkIsNotChosen
     DEF Next, Asking, Answering, Working

LEMMA TypedAndSound == Spec => [](Typed /\ FormalInvariant)
<1>1. Init => FormalInvariant
  BY DEF Init, Live
<1>2. Typed /\ FormalInvariant /\ [Next]_vars => FormalInvariant'
  BY StepIsChosen
<1>3. QED
  BY <1>1, <1>2, TypedHolds, PTL DEF Spec

\* The active designation has its resume, its text and its profile, in every
\* order of uploads, promotions, updates and removals.
THEOREM InvariantHolds == Spec => []FormalInvariant
BY TypedAndSound, PTL

\* Uploads, analyses, promotions and removals implement MasterChoice: what is
\* the Master changes only as the user was promised.
THEOREM MasterIsKept == Spec => MasterIsChosen
<1>1. Init => Choice!Init
  <2> SUFFICES ASSUME Init PROVE Choice!Init
    OBVIOUS
  <2>1. Live = {} /\ designation = None
    BY DEF Init, Live
  <2>2. Wanted = {}
    BY DEF Init, Wanted, Idle
  <2>3. QED
    BY <2>1, <2>2 DEF Choice!Init
<1>2. Typed' => Wanted' \in SUBSET Texts
  BY DEF Typed, TypeOK, Wanted, Idle, Asks
<1>3. Typed /\ FormalInvariant /\ Typed' /\ [Next]_vars => [Choice!Next]_(Choice!vars)
  BY <1>2, StepIsChosen DEF ChoiceStep, Choice!Next
<1>4. QED
  BY <1>1, <1>3, TypedAndSound, PTL DEF Spec, MasterIsChosen, Choice!Spec
=============================================================================
