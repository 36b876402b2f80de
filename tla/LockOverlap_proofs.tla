------------------------- MODULE LockOverlap_proofs -------------------------
(***************************************************************************)
(* Proofs about SchedulerLock.  While nothing excuses an overlap, at most  *)
(* one batch is past its first read of the lock, and a batch that finished *)
(* acquiring still owns a row that has not expired: that is what refuses   *)
(* the others.                                                             *)
(***************************************************************************)
EXTENDS LockOverlap, TLAPS

AloneWithLock ==
  ~excused =>
    /\ \A o1, o2 \in Owners : phase[o1] # "out" /\ phase[o2] # "out" => o1 = o2
    /\ \A o \in Owners : phase[o] \in {"in", "releasing"} => lock = o /\ live

LockInv == TypeOK /\ excused \in BOOLEAN /\ AloneWithLock

LEMMA LockInvInit == OverlapInit => LockInv
<1> SUFFICES ASSUME OverlapInit PROVE LockInv
  OBVIOUS
<1>1. TypeOK
  <2>1. live \in BOOLEAN
    BY DEF OverlapInit, Init
  <2>2. deaths \in 0..MaxDeaths
    BY LockAssumption DEF LockAssumption, OverlapInit, Init
  <2>3. phase \in [Owners -> Phases] /\ lock \in Owners \cup {NoRow, NoBatch}
    BY DEF OverlapInit, Init, Phases
  <2>4. QED
    BY <2>1, <2>2, <2>3 DEF TypeOK
<1>2. excused \in BOOLEAN
  BY DEF OverlapInit
<1>3. AloneWithLock
  BY DEF OverlapInit, Init, AloneWithLock
<1>4. QED
  BY <1>1, <1>2, <1>3 DEF LockInv

\* Every step keeps the types.
LEMMA LockTypeStep == TypeOK /\ Next => TypeOK'
<1> SUFFICES ASSUME TypeOK, Next PROVE TypeOK'
  OBVIOUS
<1> USE LockAssumption DEF LockAssumption, TypeOK, Phases
<1>1. CASE Expire
  BY <1>1 DEF Expire
<1>2. ASSUME NEW o \in Owners, Step(o) PROVE TypeOK'
  BY <1>2 DEF vars, Step, AcquireRead, AcquireRefused, AcquireUpsert, ReleaseRead, ReleaseDelete
<1>3. ASSUME NEW o \in Owners, Die(o) PROVE TypeOK'
  BY <1>3 DEF Die
<1>4. QED
  BY <1>1, <1>2, <1>3 DEF Next

\* A step that is not excused leaves at most one batch past its read, with
\* the lock in its hands.
LEMMA AloneStep == LockInv /\ OverlapNext => AloneWithLock'
<1> SUFFICES ASSUME LockInv, OverlapNext, ~excused' PROVE
      /\ \A o1, o2 \in Owners : phase'[o1] # "out" /\ phase'[o2] # "out" => o1 = o2
      /\ \A o \in Owners : phase'[o] \in {"in", "releasing"} => lock' = o /\ live'
  BY DEF AloneWithLock
<1>1. ~excused /\ ~TtlPassedUnderBatch /\ ~ReadsOverlap /\ Next
  BY DEF OverlapNext
<1>2. \A o1, o2 \in Owners : phase[o1] # "out" /\ phase[o2] # "out" => o1 = o2
  BY <1>1 DEF LockInv, AloneWithLock
<1>3. \A o \in Owners : phase[o] \in {"in", "releasing"} => lock = o /\ live
  BY <1>1 DEF LockInv, AloneWithLock
<1> USE LockAssumption DEF LockAssumption, LockInv, TypeOK, Phases
<1>4. CASE Expire
  BY <1>1, <1>2, <1>3, <1>4 DEF Expire, TtlPassedUnderBatch
<1>5. ASSUME NEW o \in Owners, AcquireRead(o)
      PROVE  \A p \in Owners : phase'[p] # "out" => p = o
  <2>1. SUFFICES ASSUME NEW p \in Owners, p # o, phase[p] # "out" PROVE FALSE
    BY <1>5 DEF AcquireRead
  <2>2. phase[p] # "acquiring"
    BY <1>1, <1>5, <2>1 DEF ReadsOverlap, AcquireRead
  <2>3. lock = p /\ live
    BY <1>3, <2>1, <2>2
  <2>4. QED
    BY <1>5, <2>1, <2>3 DEF AcquireRead, Refuses
<1>6. ASSUME NEW o \in Owners, AcquireRead(o) PROVE phase'[o] = "acquiring"
  BY <1>6 DEF AcquireRead
<1>7. ASSUME NEW o \in Owners, AcquireUpsert(o)
      PROVE  lock' = o /\ live' /\ \A p \in Owners : phase'[p] # "out" => p = o
  BY <1>2, <1>7 DEF AcquireUpsert
<1>8. ASSUME NEW o \in Owners, ReleaseRead(o)
      PROVE  lock' = o /\ live' /\ \A p \in Owners : phase'[p] # "out" => p = o
  BY <1>2, <1>3, <1>8 DEF ReleaseRead
<1>9. ASSUME NEW o \in Owners, ReleaseDelete(o) \/ Die(o)
      PROVE  \A p \in Owners : phase'[p] = "out"
  BY <1>2, <1>9 DEF ReleaseDelete, Die
<1>10. ASSUME NEW o \in Owners, AcquireRefused(o)
       PROVE  lock' = lock /\ live' = live /\ phase' = phase
  BY <1>10 DEF AcquireRefused, vars
<1>11. QED
  BY <1>1, <1>2, <1>3, <1>4, <1>5, <1>6, <1>7, <1>8, <1>9, <1>10 DEF Next, Step

LEMMA LockInvStep == LockInv /\ [OverlapNext]_overlapVars => LockInv'
<1>1. CASE OverlapNext
  BY <1>1, LockTypeStep, AloneStep DEF LockInv, OverlapNext, TypeOK
<1>2. CASE UNCHANGED overlapVars
  BY <1>2 DEF overlapVars, LockInv, TypeOK, AloneWithLock
<1>3. QED
  BY <1>1, <1>2

LEMMA LockInvImplies == LockInv => OverlapHasCause
  BY DEF LockInv, AloneWithLock, OverlapHasCause, OneBatchAtATime

(* Whatever the number of batches and of deaths: two batches run at once   *)
(* only after a TTL passed under one of them or two of them had both read  *)
(* the lock before either wrote it (IngestionLockRepository.acquire).      *)
THEOREM OverlapNeedsCause == OverlapSpec => []OverlapHasCause
  BY LockInvInit, LockInvStep, LockInvImplies, PTL DEF OverlapSpec
=============================================================================
