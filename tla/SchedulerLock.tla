--------------------------- MODULE SchedulerLock ---------------------------
(***************************************************************************)
(* IngestionLockRepository: the row of ingestionSchedulerLock that keeps   *)
(* the batches of one worker apart.  acquire and release are two database  *)
(* statements each, a read and a write that does not repeat what was read. *)
(* A batch takes the lock under a name of its own (a fresh UUID), so what  *)
(* a dead batch leaves behind belongs to nobody: NoBatch.                  *)
(***************************************************************************)
EXTENDS Naturals

CONSTANTS
  Owners,     \* the batches that may overlap
  NoRow,      \* there is no lock row
  NoBatch,    \* the owner of a row whose batch died
  MaxDeaths   \* bound on batches that die with their process

ASSUME LockAssumption ==
  NoRow \notin Owners /\ NoBatch \notin Owners /\ NoRow # NoBatch /\ MaxDeaths \in Nat

VARIABLES
  lock,    \* owner of the lock row
  live,    \* its expiresAt is in the future
  phase,   \* where each batch is in acquire and release
  deaths

vars == <<lock, live, phase, deaths>>

Phases == {"out", "acquiring", "in", "releasing"}

TypeOK ==
  /\ lock \in Owners \cup {NoRow, NoBatch}
  /\ live \in BOOLEAN
  /\ phase \in [Owners -> Phases]
  /\ deaths \in 0..MaxDeaths

Init ==
  /\ lock = NoRow
  /\ live = FALSE
  /\ phase = [o \in Owners |-> "out"]
  /\ deaths = 0

\* Mutant: a row blocks the others even after it expired.
RefusesExpired(o) == lock \notin {NoRow, o}

\* Mutant: the comparison with expiresAt is the other way round.
RefusesOnlyExpired(o) == lock \notin {NoRow, o} /\ ~live

\* acquire returns false.
Refuses(o) == lock \notin {NoRow, o} /\ live

AcquireRead(o) ==
  /\ phase[o] = "out"
  /\ ~Refuses(o)
  /\ phase' = [phase EXCEPT ![o] = "acquiring"]
  /\ UNCHANGED <<lock, live, deaths>>

\* The tick does nothing and another comes.
AcquireRefused(o) ==
  /\ phase[o] = "out"
  /\ Refuses(o)
  /\ UNCHANGED vars

AcquireUpsert(o) ==
  /\ phase[o] = "acquiring"
  /\ phase' = [phase EXCEPT ![o] = "in"]
  /\ lock' = o
  /\ live' = TRUE
  /\ UNCHANGED deaths

ReleaseRead(o) ==
  /\ phase[o] = "in"
  /\ phase' = [phase EXCEPT ![o] = IF lock = o THEN "releasing" ELSE "out"]
  /\ UNCHANGED <<lock, live, deaths>>

\* By id, whoever owns the row by now.
ReleaseDelete(o) ==
  /\ phase[o] = "releasing"
  /\ phase' = [phase EXCEPT ![o] = "out"]
  /\ lock' = NoRow
  /\ live' = FALSE
  /\ UNCHANGED deaths

Expire ==
  /\ live
  /\ live' = FALSE
  /\ UNCHANGED <<lock, phase, deaths>>

Die(o) ==
  /\ phase[o] # "out"
  /\ deaths < MaxDeaths
  /\ deaths' = deaths + 1
  /\ phase' = [phase EXCEPT ![o] = "out"]
  /\ lock' = IF lock = o THEN NoBatch ELSE lock
  /\ UNCHANGED live

Step(o) ==
  \/ AcquireRead(o) \/ AcquireRefused(o) \/ AcquireUpsert(o)
  \/ ReleaseRead(o) \/ ReleaseDelete(o)

Next == Expire \/ \E o \in Owners : Step(o) \/ Die(o)

Spec == Init /\ [][Next]_vars

----------------------------------------------------------------------------
(* At most one batch runs while no TTL has passed ("o lock do worker       *)
(* protege o lote").  Two batches that both read a free lock both upsert   *)
(* it, so this fails without any expiry.                                   *)
OneBatchAtATime == \A o1, o2 \in Owners : phase[o1] = "in" /\ phase[o2] = "in" => o1 = o2

(* A batch that dies holding the lock does not stop the worker for good:   *)
(* another batch gets in.                                                  *)
DeadBatchIsReplaced == (lock = NoBatch) ~> (\E o \in Owners : phase[o] = "in")
=============================================================================
