---------------------------- MODULE LockOverlap ----------------------------
(***************************************************************************)
(* SchedulerLock with a history of what lets two batches run at once: a    *)
(* TTL that passed under a batch, or two batches that read a free lock     *)
(* before either took it.                                                  *)
(***************************************************************************)
EXTENDS SchedulerLock

VARIABLE excused

overlapVars == <<lock, live, phase, deaths, excused>>

TtlPassedUnderBatch == live /\ ~live' /\ lock' = lock /\ lock \in Owners

ReadsOverlap == \E o1, o2 \in Owners :
  o1 # o2 /\ phase'[o1] = "acquiring" /\ phase'[o2] = "acquiring"

OverlapInit == Init /\ excused = FALSE

OverlapNext ==
  /\ Next
  /\ excused' = (excused \/ TtlPassedUnderBatch \/ ReadsOverlap)

OverlapSpec == OverlapInit /\ [][OverlapNext]_overlapVars

\* The cron calls acquire every 30 seconds, a batch ends, a TTL passes.
OverlapLiveSpec ==
  OverlapSpec /\ WF_vars(Expire) /\ \A o \in Owners : WF_vars(Step(o))

(* Two batches run at once only if a TTL passed under one of them or both  *)
(* read the lock free: acquire and release as written have no other way to *)
(* let a second batch in, deaths included.                                 *)
OverlapHasCause == excused \/ OneBatchAtATime
============================================================================
