---------------------------- MODULE MasterChoice ----------------------------
(***************************************************************************)
(* What a user is promised about the Master CV: it is a CV that exists, it *)
(* is replaced by another text only where that was asked for, and it is    *)
(* dropped with its CV and never otherwise.                                *)
(***************************************************************************)
CONSTANTS Texts, Resumes, None

VARIABLES
  cvs,     \* the resumes the user has
  master,  \* [text, resume], or None
  wanted   \* texts asked for explicitly and not yet settled

vars == <<cvs, master, wanted>>

Init == cvs = {} /\ master = None /\ wanted = {}

Masters == [text : Texts, resume : cvs]

\* Resumes go, together or to make place for a new one, and the Master with
\* its own.
Change(S) ==
  /\ cvs' = S
  /\ master' = IF master # None /\ master.resume \notin S THEN None ELSE master

\* The first Master, or the same text under another of its resumes.
Take(m) ==
  /\ master = None \/ master.text = m.text
  /\ master' = m
  /\ UNCHANGED cvs

Replace(m) ==
  /\ m.text \in wanted
  /\ master' = m
  /\ UNCHANGED cvs

\* What is asked for comes and goes, together with any of these or alone.
Next ==
  /\ wanted' \in SUBSET Texts
  /\ \/ \E S \in SUBSET Resumes : Change(S)
     \/ \E m \in Masters : Take(m) \/ Replace(m)
     \/ UNCHANGED <<cvs, master>>

Spec == Init /\ [][Next]_vars
=============================================================================
