--------------------------- MODULE EmailContract ---------------------------
(***************************************************************************)
(* What EmailDispatch promises of each e-mail while every batch is either  *)
(* alive and quick or dead: it leaves at most once and only while it is    *)
(* being processed, once it may have left it is never tried again, and an  *)
(* end other than the webhook's correction of SENT and FAILED is final.    *)
(***************************************************************************)
CONSTANTS Emails

VARIABLES
  stage,  \* of each e-mail
  left    \* the e-mails the provider took

vars == <<stage, left>>

Stages == {"none", "waiting", "processing", "unknown", "sent", "failed", "dropped"}

Init ==
  /\ stage = [m \in Emails |-> "none"]
  /\ left = {}

Move(S, to) == stage' = [m \in Emails |-> IF m \in S THEN to ELSE stage[m]]

Enqueue(S) ==
  /\ \A m \in S : stage[m] = "none"
  /\ Move(S, "waiting")
  /\ UNCHANGED left

Expire(S) ==
  /\ \A m \in S : stage[m] = "waiting"
  /\ Move(S, "dropped")
  /\ UNCHANGED left

Take(m) ==
  /\ stage[m] = "waiting"
  /\ Move({m}, "processing")
  /\ UNCHANGED left

Leave(m) ==
  /\ stage[m] = "processing" /\ m \notin left
  /\ left' = left \cup {m}
  /\ UNCHANGED stage

\* Back in the queue, dropped or given up: only what has not left.
PutAside(m, to) ==
  /\ stage[m] = "processing" /\ m \notin left
  /\ Move({m}, to)
  /\ UNCHANGED left

Confirm(m) ==
  /\ stage[m] = "processing" /\ m \in left
  /\ Move({m}, "sent")
  /\ UNCHANGED left

LoseTrack(S) ==
  /\ \A m \in S : stage[m] = "processing"
  /\ Move(S, "unknown")
  /\ UNCHANGED left

\* The provider reports on what it took.
Report(m, to) ==
  /\ stage[m] \in {"unknown", "sent", "failed"} /\ m \in left
  /\ Move({m}, to)
  /\ UNCHANGED left

Next ==
  \/ \E S \in SUBSET Emails : Enqueue(S) \/ Expire(S) \/ LoseTrack(S)
  \/ \E m \in Emails :
       \/ Take(m) \/ Leave(m) \/ Confirm(m)
       \/ \E to \in {"waiting", "dropped", "failed"} : PutAside(m, to)
       \/ \E to \in {"sent", "failed"} : Report(m, to)

Spec == Init /\ [][Next]_vars
=============================================================================
