------------------------- MODULE JobIndexing_proofs -------------------------
(***************************************************************************)
(* Proofs about the queue of Google notices, for any number of jobs, of    *)
(* callers, of faults and any quota.                                       *)
(*                                                                         *)
(* The queue holds a row per job (TypeOK).  It keeps that because a row's  *)
(* id stands for one job as long as a caller or the worker remembers it    *)
(* (Remembers): what they write later hits the row they read, another job  *)
(* never.  There is always an id that nobody remembers (NewIdIsFree).      *)
(*                                                                         *)
(* The quota is kept because it covers what the worker sent today and what *)
(* it has still to send of its batch (Covered).                            *)
(*                                                                         *)
(* A job that closed is forgotten because, as long as Google has its page  *)
(* or is about to get it (Announced), its removal is queued or a caller is *)
(* about to queue it (Pending), or it got lost in one of the named ways.   *)
(*                                                                         *)
(* A removal goes out before it expires because those before it are fewer  *)
(* than what the days it has left bring out (OutInTime), and because the   *)
(* updates of the day leave the floor to it (FloorIsKept).                 *)
(***************************************************************************)
EXTENDS JobIndexing, FiniteSetTheorems, TLAPS

\* What an id stands for does not change while somebody remembers it.
Remembers(i, s) == \A r \in Range(queue) : r.id = i => r.slug = s

Rowed == queue \in Seq(Rows) /\ items \in Seq(Rows)

Calling(c) ==
  /\ step[c] = "idle" => ask[c] = NoAsk
  /\ step[c] # "idle" => ask[c] \in Asked
  /\ step[c] # "write" => copy[c] = NoRow
  /\ step[c] = "write" /\ ask[c].type = DELETED => Slug(c) \in known
  /\ copy[c] # NoRow => copy[c].slug = Slug(c) /\ Remembers(copy[c].id, Slug(c))

Callings == \A c \in Callers : Calling(c)

Batch ==
  /\ phase = "idle" <=> items = <<>>
  /\ \A t \in Range(items) : Remembers(t.id, t.slug)
  /\ \A t, u \in Range(items) : t.slug = u.slug => t = u
  /\ phase \in {"log", "done"} => told[Item.slug] = Item.type

\* The quota covers what the worker has still to send.
Covered ==
  sent[UPDATED] + sent[DELETED] + Len(items) <= DailyLimit + (IF phase = "done" THEN 1 ELSE 0)

RemovalsAreKnown == \A r \in Range(queue) : r.type = DELETED => r.slug \in known

\* A caller that will write the removal of s, or lose it.
Works(c, s) ==
  /\ step[c] \in Enqueueing /\ Slug(c) = s /\ ask[c].type = DELETED
  /\ copy[c] = NoRow \/ copy[c].type = UPDATED

\* The removal of s is queued, or somebody is about to queue it.
Pending(s) ==
  (\E r \in Range(queue) : r.slug = s /\ r.type = DELETED) \/ \E c \in Callers : Works(c, s)

\* Google has the page of s, or is about to.
Announced(s) == told[s] = UPDATED \/ (phase = "send" /\ Item.slug = s /\ Item.type = UPDATED)

RemovalsPend == \A s \in Slugs \ (active \cup lost) : Announced(s) => Pending(s)

\* What the rest is proved from.
TypeInv == TypeOK /\ Rowed /\ Callings /\ Batch

----------------------------------------------------------------------------
(* Sequences of rows: what a filter keeps, and in which order.             *)

Below(K, n) == Cardinality({k \in K : k <= n})

LEMMA BelowGrows ==
  ASSUME NEW l \in Nat, NEW K \in SUBSET (1..l)
  PROVE  /\ IsFiniteSet(K) /\ Cardinality(K) \in Nat
         /\ \A m \in K : Below(K, m) \in 1..Cardinality(K)
         /\ \A m, n \in K : Below(K, m) = Below(K, n) => m = n
<1>1. IsFiniteSet(K) /\ Cardinality(K) \in Nat
  <2>1. IsFiniteSet(1..l)
    BY FS_Interval
  <2>2. IsFiniteSet(K)
    BY <2>1, FS_Subset
  <2>3. QED
    BY <2>2, FS_CardinalityType
<1>2. \A m \in K : Below(K, m) \in 1..Cardinality(K)
  <2> SUFFICES ASSUME NEW m \in K PROVE Below(K, m) \in 1..Cardinality(K)
    OBVIOUS
  <2> DEFINE B == {k \in K : k <= m}
  <2>1. B \subseteq K /\ m \in B
    OBVIOUS
  <2>2. IsFiniteSet(B) /\ Cardinality(B) \in Nat /\ Cardinality(B) <= Cardinality(K)
        /\ Cardinality(B) # 0
    BY <1>1, <2>1, FS_Subset, FS_CardinalityType, FS_EmptySet
  <2>3. QED
    BY <1>1, <2>2 DEF Below
<1>3. ASSUME NEW m \in K, NEW n \in K, m < n PROVE Below(K, m) # Below(K, n)
  <2> DEFINE B == {k \in K : k <= m}
             C == {k \in K : k <= n}
  <2>1. B \subseteq C /\ B # C
    <3>1. m \in Nat /\ n \in Nat /\ \A k \in K : k \in Nat
      OBVIOUS
    <3>2. n \in C /\ n \notin B
      BY <1>3, <3>1
    <3>3. \A k \in K : k <= m => k <= n
      BY <1>3, <3>1
    <3>4. QED
      BY ONLY <3>2, <3>3
  <2>2. IsFiniteSet(C)
    BY <1>1, FS_Subset
  <2>3. Cardinality(B) # Cardinality(C)
    BY <2>1, <2>2, FS_Subset
  <2>4. QED
    BY <2>3 DEF Below
<1>4. \A m, n \in K : Below(K, m) = Below(K, n) => m = n
  <2> SUFFICES ASSUME NEW m \in K, NEW n \in K, Below(K, m) = Below(K, n) PROVE m = n
    OBVIOUS
  <2>1. m \in Int /\ n \in Int
    OBVIOUS
  <2>2. ~(m < n) /\ ~(n < m)
    BY <1>3
  <2>3. QED
    BY <2>1, <2>2
<1>5. QED
  BY <1>1, <1>2, <1>4

\* Nth counts the elements of K in their order, each one once.
LEMMA NthPlace ==
  ASSUME NEW l \in Nat, NEW K \in SUBSET (1..l)
  PROVE  /\ Cardinality(K) \in Nat
         /\ \A i \in 1..Cardinality(K) : Nth(K, i) \in K /\ Below(K, Nth(K, i)) = i
         /\ \A m \in K : Below(K, m) \in 1..Cardinality(K) /\ Nth(K, Below(K, m)) = m
<1> DEFINE c == Cardinality(K)
           f == [m \in K |-> Below(K, m)]
<1>1. /\ IsFiniteSet(K) /\ c \in Nat
      /\ \A m \in K : Below(K, m) \in 1..c
      /\ \A m, n \in K : Below(K, m) = Below(K, n) => m = n
  BY BelowGrows
<1>2. f \in Injection(K, 1..c)
  BY <1>1 DEF Injection, IsInjective
<1>3. IsFiniteSet(1..c) /\ Cardinality(1..c) = c
  BY <1>1, FS_Interval
<1>4. f \in Surjection(K, 1..c)
  BY <1>2, <1>3, FS_Injection
<1>5. \A i \in 1..c : \E m \in K : Below(K, m) = i
  BY <1>4 DEF Surjection
<1>6. \A i \in 1..c : Nth(K, i) \in K /\ Below(K, Nth(K, i)) = i
  <2> SUFFICES ASSUME NEW i \in 1..c PROVE Nth(K, i) \in K /\ Below(K, Nth(K, i)) = i
    OBVIOUS
  <2>1. \E m \in K : Cardinality({k \in K : k <= m}) = i
    BY <1>5 DEF Below
  <2>2. QED
    BY <2>1 DEF Nth, Below
<1>7. QED
  BY <1>1, <1>6

Places(q, S) == {n \in DOMAIN q : q[n] \in S}

LEMMA KeptPlaces ==
  ASSUME NEW D, NEW q \in Seq(D), NEW S
  PROVE  /\ Len(Kept(q, S)) = Cardinality(Places(q, S)) /\ Cardinality(Places(q, S)) \in Nat
         /\ Kept(q, S) \in Seq(D)
         /\ \A i \in DOMAIN Kept(q, S) : /\ Nth(Places(q, S), i) \in Places(q, S)
                                         /\ Kept(q, S)[i] = q[Nth(Places(q, S), i)]
                                         /\ Below(Places(q, S), Nth(Places(q, S), i)) = i
         /\ \A n \in Places(q, S) : \E i \in DOMAIN Kept(q, S) : Nth(Places(q, S), i) = n
<1> DEFINE K == Places(q, S)
           c == Cardinality(K)
<1>1. DOMAIN q = 1..Len(q) /\ Len(q) \in Nat /\ \A n \in 1..Len(q) : q[n] \in D
  OBVIOUS
<1>2. K \in SUBSET (1..Len(q))
  BY <1>1 DEF Places
<1>3. /\ c \in Nat
      /\ \A i \in 1..c : Nth(K, i) \in K /\ Below(K, Nth(K, i)) = i
      /\ \A m \in K : Below(K, m) \in 1..c /\ Nth(K, Below(K, m)) = m
  BY <1>1, <1>2, NthPlace
<1>4. Kept(q, S) = [i \in 1..c |-> q[Nth(K, i)]]
  BY DEF Kept, Places
<1> HIDE DEF K
<1>5. \A i \in 1..c : q[Nth(K, i)] \in D
  BY <1>1, <1>2, <1>3
<1>6. Kept(q, S) \in Seq(D) /\ Len(Kept(q, S)) = c /\ DOMAIN Kept(q, S) = 1..c
  BY <1>3, <1>4, <1>5
<1>7. QED
  BY <1>3, <1>4, <1>6 DEF K

\* A filter keeps exactly the rows of the set, and repeats none.
LEMMA KeptRows ==
  ASSUME NEW D, NEW q \in Seq(D), NEW S
  PROVE  /\ Kept(q, S) \in Seq(D) /\ Len(Kept(q, S)) \in Nat
         /\ Range(Kept(q, S)) = Range(q) \cap S
<1> DEFINE K == Places(q, S)
<1>1. /\ Kept(q, S) \in Seq(D) /\ Len(Kept(q, S)) \in Nat
      /\ \A i \in DOMAIN Kept(q, S) : Nth(K, i) \in K /\ Kept(q, S)[i] = q[Nth(K, i)]
      /\ \A n \in K : \E i \in DOMAIN Kept(q, S) : Nth(K, i) = n
  BY KeptPlaces
<1>2. \A n \in DOMAIN q : n \in K <=> q[n] \in S
  BY DEF Places
<1>3. K \subseteq DOMAIN q
  BY DEF Places
<1> HIDE DEF K
<1>4. Range(Kept(q, S)) \subseteq Range(q) \cap S
  BY <1>1, <1>2, <1>3 DEF Range
<1>5. ASSUME NEW n \in DOMAIN q, q[n] \in S PROVE q[n] \in Range(Kept(q, S))
  BY <1>1, <1>2, <1>5 DEF Range
<1>6. QED
  BY <1>1, <1>4, <1>5 DEF Range

\* No two rows of a slug, and none of an id.
Apart(q) ==
  \A m, n \in DOMAIN q : q[m].slug = q[n].slug \/ q[m].id = q[n].id => m = n

LEMMA KeptApart ==
  ASSUME NEW D, NEW q \in Seq(D), NEW S, Apart(q)
  PROVE  Apart(Kept(q, S))
<1> DEFINE K == Places(q, S)
<1>1. \A i \in DOMAIN Kept(q, S) :
        Nth(K, i) \in K /\ Kept(q, S)[i] = q[Nth(K, i)] /\ Below(K, Nth(K, i)) = i
  BY KeptPlaces
<1>2. K \subseteq DOMAIN q
  BY DEF Places
<1> HIDE DEF K
<1>3. QED
  BY <1>1, <1>2 DEF Apart

LEMMA ApartRows ==
  ASSUME NEW q, Apart(q)
  PROVE  \A r, t \in Range(q) : r.slug = t.slug \/ r.id = t.id => r = t
BY DEF Apart, Range

LEMMA FirstRows ==
  ASSUME NEW D, NEW q \in Seq(D), NEW n \in Int
  PROVE  /\ First(n, q) \in Seq(D) /\ Range(First(n, q)) \subseteq Range(q)
         /\ Len(First(n, q)) = Lesser(NotNegative(n), Len(q)) /\ Len(First(n, q)) \in Nat
<1> DEFINE m == Lesser(NotNegative(n), Len(q))
<1>1. m \in Nat /\ m <= Len(q) /\ Len(q) \in Nat
  BY DEF Lesser, NotNegative
<1> HIDE DEF m
<1>2. First(n, q) = SubSeq(q, 1, m)
  BY DEF First, m
<1>3. SubSeq(q, 1, m) = [i \in 1..m |-> q[i]]
  BY <1>1
<1>4. \A i \in 1..m : i \in DOMAIN q /\ q[i] \in D
  BY <1>1
<1>5. First(n, q) \in Seq(D) /\ Len(First(n, q)) = m
  BY <1>1, <1>2, <1>3, <1>4
<1>6. Range(First(n, q)) \subseteq Range(q)
  BY <1>2, <1>3, <1>4 DEF Range
<1>7. QED
  BY <1>1, <1>5, <1>6 DEF m

LEMMA CatRows ==
  ASSUME NEW D, NEW p \in Seq(D), NEW q \in Seq(D)
  PROVE  /\ p \o q \in Seq(D) /\ Len(p \o q) = Len(p) + Len(q)
         /\ Range(p \o q) \subseteq Range(p) \cup Range(q)
BY DEF Range

LEMMA PickBatchRows ==
  ASSUME TypeOK, NEW q \in Seq(Rows)
  PROVE  /\ PickBatch(q) \in Seq(Rows) /\ Range(PickBatch(q)) \subseteq Range(q)
         /\ Len(PickBatch(q)) \in Nat /\ Len(PickBatch(q)) <= PerRun
         /\ RemainingToday >= 0 => Len(PickBatch(q)) <= RemainingToday
<1> DEFINE size == Lesser(PerRun, RemainingToday)
           budget == NotNegative(RemainingToday - Reserve(q))
           due(t, P) == Kept(q, {r \in Range(q) : r.due /\ r.type = t /\ r.priority \in P})
           fresh == due(UPDATED, {DeletedFirst}) \o due(UPDATED, {NewJob})
           gone == due(DELETED, {DeletedFirst}) \o due(DELETED, {NewJob}) \o due(DELETED, {Backfilled})
           rest == due(UPDATED, {Backfilled})
           new == First(Lesser(size, budget), fresh)
           removals == First(size - Len(new), gone)
           backfill == First(Lesser(size - Len(new) - Len(removals), budget - Len(new)), rest)
<1>1. \A t, P : due(t, P) \in Seq(Rows) /\ Range(due(t, P)) \subseteq Range(q)
  BY KeptRows
<1>2. PickBatch(q) = new \o removals \o backfill
  BY DEF PickBatch
<1>3. RemainingToday \in Int /\ PerRun \in Nat /\ size \in Int /\ budget \in Nat
  <2>1. DailyLimit \in Nat /\ Floor \in Nat /\ PerRun \in Nat
    BY IndexingAssumption DEF IndexingAssumption
  <2>2. sent[UPDATED] \in Nat /\ sent[DELETED] \in Nat
    BY DEF TypeOK, Types
  <2>3. RemainingToday \in Int /\ Reserve(q) \in Nat
    BY <2>1, <2>2 DEF RemainingToday, Reserve, NotNegative
  <2>4. QED
    BY <2>1, <2>3 DEF Lesser, NotNegative
<1> HIDE DEF due
<1>4. /\ fresh \in Seq(Rows) /\ Range(fresh) \subseteq Range(q)
      /\ rest \in Seq(Rows) /\ Range(rest) \subseteq Range(q)
  BY <1>1, CatRows
<1>5. gone \in Seq(Rows) /\ Range(gone) \subseteq Range(q)
  <2> DEFINE two == due(DELETED, {DeletedFirst}) \o due(DELETED, {NewJob})
  <2>1. two \in Seq(Rows) /\ Range(two) \subseteq Range(q)
    BY <1>1, CatRows
  <2> HIDE DEF two
  <2>2. two \o due(DELETED, {Backfilled}) \in Seq(Rows)
        /\ Range(two \o due(DELETED, {Backfilled})) \subseteq Range(q)
    BY <1>1, <2>1, CatRows
  <2>3. QED
    BY <2>2 DEF two
<1> HIDE DEF size, budget, fresh, gone, rest
<1>6. Lesser(size, budget) \in Int
  BY <1>3 DEF Lesser
<1>7. /\ new \in Seq(Rows) /\ Range(new) \subseteq Range(q) /\ Len(new) \in Nat
      /\ Len(new) <= NotNegative(size)
  <2>1. /\ new \in Seq(Rows) /\ Range(new) \subseteq Range(q) /\ Len(new) \in Nat
        /\ Len(new) = Lesser(NotNegative(Lesser(size, budget)), Len(fresh))
    BY <1>4, <1>6, FirstRows
  <2>2. Len(fresh) \in Nat
    BY <1>4
  <2>3. QED
    BY <1>3, <2>1, <2>2 DEF Lesser, NotNegative
<1> HIDE DEF new
<1>8. /\ removals \in Seq(Rows) /\ Range(removals) \subseteq Range(q) /\ Len(removals) \in Nat
      /\ Len(removals) <= NotNegative(size - Len(new))
  <2>1. size - Len(new) \in Int
    BY <1>3, <1>7
  <2>2. /\ removals \in Seq(Rows) /\ Range(removals) \subseteq Range(q) /\ Len(removals) \in Nat
        /\ Len(removals) = Lesser(NotNegative(size - Len(new)), Len(gone))
    BY <1>5, <2>1, FirstRows
  <2>3. Len(gone) \in Nat
    BY <1>5
  <2>4. QED
    BY <2>1, <2>2, <2>3 DEF Lesser, NotNegative
<1> HIDE DEF removals
<1> DEFINE room == Lesser(size - Len(new) - Len(removals), budget - Len(new))
<1>9. room \in Int /\ room <= size - Len(new) - Len(removals)
  BY <1>3, <1>7, <1>8 DEF Lesser
<1>10. /\ backfill \in Seq(Rows) /\ Range(backfill) \subseteq Range(q) /\ Len(backfill) \in Nat
       /\ Len(backfill) <= NotNegative(size - Len(new) - Len(removals))
  <2> HIDE DEF room
  <2>1. /\ backfill \in Seq(Rows) /\ Range(backfill) \subseteq Range(q) /\ Len(backfill) \in Nat
        /\ Len(backfill) = Lesser(NotNegative(room), Len(rest))
    BY <1>4, <1>9, FirstRows DEF room
  <2>2. Len(rest) \in Nat
    BY <1>4
  <2>3. QED
    BY <1>3, <1>7, <1>8, <1>9, <2>1, <2>2 DEF Lesser, NotNegative
<1> HIDE DEF room, backfill
<1> DEFINE both == new \o removals
<1>11. /\ both \in Seq(Rows) /\ Len(both) = Len(new) + Len(removals)
       /\ Range(both) \subseteq Range(q)
  BY <1>7, <1>8, CatRows
<1>12. /\ PickBatch(q) \in Seq(Rows) /\ Range(PickBatch(q)) \subseteq Range(q)
       /\ Len(PickBatch(q)) = Len(new) + Len(removals) + Len(backfill)
  <2>1. PickBatch(q) = both \o backfill
    BY <1>2
  <2> HIDE DEF both
  <2>2. /\ both \o backfill \in Seq(Rows) /\ Len(both \o backfill) = Len(both) + Len(backfill)
        /\ Range(both \o backfill) \subseteq Range(both) \cup Range(backfill)
    BY <1>10, <1>11, CatRows
  <2>3. QED
    BY <1>10, <1>11, <2>1, <2>2
<1>13. Len(PickBatch(q)) \in Nat /\ Len(PickBatch(q)) <= NotNegative(size)
  BY <1>3, <1>7, <1>8, <1>10, <1>12 DEF NotNegative
<1>14. NotNegative(size) <= PerRun /\ (RemainingToday >= 0 => NotNegative(size) <= RemainingToday)
  BY <1>3 DEF NotNegative, Lesser, size
<1>15. NotNegative(size) \in Nat
  BY <1>3 DEF NotNegative
<1>16. QED
  BY <1>3, <1>12, <1>13, <1>14, <1>15

----------------------------------------------------------------------------
(* There is an id for a new row.                                           *)

LEMMA Constants ==
  /\ IsFiniteSet(Slugs) /\ IsFiniteSet(Callers)
  /\ DailyLimit \in Nat /\ DailyLimit > 0 /\ PerRun \in Nat /\ PerRun > 0
  /\ MaxAttempts \in Nat /\ MaxAttempts > 0 /\ TTL \in Nat /\ TTL > 0
  /\ Floor \in Nat /\ MaxAsks \in Nat /\ MaxDays \in Nat /\ MaxMishaps \in Nat
  /\ NoRow \notin Rows /\ NoAsk \notin Asked /\ Notified \subseteq Slugs
BY IndexingAssumption DEF IndexingAssumption

LEMMA IdsOfRows ==
  ASSUME NEW R \in SUBSET Rows, \A r, t \in R : r.slug = t.slug => r = t
  PROVE  LET I == {r.id : r \in R} IN IsFiniteSet(I) /\ Cardinality(I) <= Cardinality(Slugs)
<1> DEFINE I == {r.id : r \in R}
           row(i) == CHOOSE r \in R : r.id = i
           f == [i \in I |-> row(i).slug]
<1>1. \A i \in I : row(i) \in R /\ row(i).id = i
  OBVIOUS
<1>2. \A r \in R : r.slug \in Slugs
  BY DEF Rows
<1> HIDE DEF row
<1>3. f \in [I -> Slugs]
  BY <1>1, <1>2
<1>4. \A i, j \in I : f[i] = f[j] => i = j
  BY <1>1
<1>5. f \in Injection(I, Slugs)
  BY <1>3, <1>4 DEF Injection, IsInjective
<1>6. QED
  BY <1>5, Constants, FS_Injection

LEMMA IdsOfCopies ==
  ASSUME TypeOK, NEW c \in Callers, copy[c] = NoRow
  PROVE  LET I == {copy[d].id : d \in {d \in Callers : copy[d] # NoRow}}
         IN  IsFiniteSet(I) /\ Cardinality(I) < Cardinality(Callers)
<1> DEFINE I == {copy[d].id : d \in {d \in Callers : copy[d] # NoRow}}
           who(i) == CHOOSE d \in Callers : copy[d] # NoRow /\ copy[d].id = i
           f == [i \in I |-> who(i)]
           others == Callers \ {c}
<1>1. \A i \in I : who(i) \in Callers /\ copy[who(i)] # NoRow /\ copy[who(i)].id = i
  OBVIOUS
<1> HIDE DEF who
<1>2. f \in [I -> others] /\ \A i, j \in I : f[i] = f[j] => i = j
  BY <1>1
<1>3. f \in Injection(I, others)
  BY <1>2 DEF Injection, IsInjective
<1>4. IsFiniteSet(others) /\ Cardinality(others) = Cardinality(Callers) - 1
      /\ Cardinality(Callers) \in Nat
  BY Constants, FS_RemoveElement, FS_CardinalityType
<1>5. IsFiniteSet(I) /\ Cardinality(I) <= Cardinality(others)
  BY <1>3, <1>4, FS_Injection
<1>6. Cardinality(I) \in Nat
  BY <1>5, FS_CardinalityType
<1>7. QED
  BY <1>4, <1>5, <1>6

LEMMA UnionBound ==
  ASSUME NEW S, NEW T, IsFiniteSet(S), IsFiniteSet(T)
  PROVE  IsFiniteSet(S \cup T) /\ Cardinality(S \cup T) <= Cardinality(S) + Cardinality(T)
<1>1. IsFiniteSet(S \cap T)
  BY FS_Subset
<1>2. /\ Cardinality(S \cap T) \in Nat /\ Cardinality(S) \in Nat /\ Cardinality(T) \in Nat
  BY <1>1, FS_CardinalityType
<1>3. IsFiniteSet(S \cup T)
      /\ Cardinality(S \cup T) = Cardinality(S) + Cardinality(T) - Cardinality(S \cap T)
  BY FS_Union
<1>4. QED
  BY ONLY <1>2, <1>3

LEMMA NewIdIsFree ==
  ASSUME TypeInv, NEW c \in Callers, copy[c] = NoRow
  PROVE  NewId \in Ids /\ WithId(NewId) = {} /\ NewId \notin Remembered
<1> DEFINE Q == {r.id : r \in Range(queue)}
           C == {copy[d].id : d \in {d \in Callers : copy[d] # NoRow}}
           B == {r.id : r \in Range(items)}
           used == (Q \cup B) \cup C
<1>1. \A r, t \in Range(queue) : r.slug = t.slug => r = t
  BY DEF TypeInv, TypeOK, Range
<1>2. IsFiniteSet(Q) /\ Cardinality(Q) <= Cardinality(Slugs)
  BY <1>1, IdsOfRows DEF TypeInv, TypeOK
<1>3. IsFiniteSet(B) /\ Cardinality(B) <= Cardinality(Slugs)
  BY IdsOfRows DEF TypeInv, TypeOK, Batch
<1>4. IsFiniteSet(C) /\ Cardinality(C) < Cardinality(Callers)
  BY IdsOfCopies DEF TypeInv
<1>5. /\ Cardinality(Q) \in Nat /\ Cardinality(B) \in Nat /\ Cardinality(C) \in Nat
      /\ Cardinality(Slugs) \in Nat /\ Cardinality(Callers) \in Nat
  BY <1>2, <1>3, <1>4, Constants, FS_CardinalityType
<1> HIDE DEF Q, B, C
<1>6. IsFiniteSet(Q \cup B) /\ Cardinality(Q \cup B) <= Cardinality(Q) + Cardinality(B)
  BY <1>2, <1>3, UnionBound
<1>7. IsFiniteSet(used) /\ Cardinality(used) <= Cardinality(Q \cup B) + Cardinality(C)
  BY <1>4, <1>6, UnionBound
<1>8. Cardinality(Q \cup B) \in Nat /\ Cardinality(used) \in Nat
  BY <1>6, <1>7, FS_CardinalityType
<1>9. IsFiniteSet(Ids) /\ Cardinality(Ids) = 2 * Cardinality(Slugs) + Cardinality(Callers)
  <2> DEFINE n == 2 * Cardinality(Slugs) + Cardinality(Callers)
  <2>1. n \in Nat
    BY ONLY <1>5
  <2>2. Ids = 1..n
    BY DEF Ids
  <2> HIDE DEF n
  <2>3. IsFiniteSet(1..n) /\ Cardinality(1..n) = n
    BY <2>1, FS_Interval
  <2>4. QED
    BY <2>2, <2>3 DEF n
<1>10. Cardinality(used) < Cardinality(Ids)
  BY <1>2, <1>3, <1>4, <1>5, <1>6, <1>7, <1>8, <1>9
<1>11. PICK i \in Ids : i \notin used
  <2>1. ~ (Ids \subseteq used)
    <3> SUFFICES ASSUME Ids \subseteq used PROVE FALSE
      OBVIOUS
    <3>1. Cardinality(Ids) <= Cardinality(used)
      BY <1>7, FS_Subset
    <3>2. QED
      BY <1>5, <1>8, <1>9, <1>10, <3>1
  <2>2. QED
    BY <2>1
<1>12. \E j \in Ids : WithId(j) = {} /\ j \notin Remembered
  BY <1>11 DEF Q, B, C, WithId, Remembered
<1>13. QED
  BY <1>12 DEF NewId

----------------------------------------------------------------------------
(* What each step does to the queue.                                       *)

SameKind(r, t) == r.slug = t.slug /\ r.id = t.id /\ r.type = t.type

\* Every row was one of this slug, id and type before.
Descends ==
  /\ queue' \in Seq(Rows) /\ Apart(queue')
  /\ \A r \in Range(queue') : \E t \in Range(queue) : SameKind(r, t)

\* The row is still there, whatever its priority, attempts and age.
Stays(t) == \E r \in Range(queue') : SameKind(r, t)

LEMMA QueueType ==
  ASSUME TypeInv
  PROVE  /\ queue \in Seq(Rows) /\ Apart(queue)
         /\ DOMAIN queue = 1..Len(queue) /\ Len(queue) \in Nat
         /\ \A n \in DOMAIN queue : queue[n] \in Rows
         /\ \A r \in Range(queue) : r \in Rows
<1>1. queue \in Seq(Rows) /\ Apart(queue)
  BY DEF TypeInv, TypeOK, Rowed, Apart
<1>2. DOMAIN queue = 1..Len(queue) /\ Len(queue) \in Nat /\ \A n \in DOMAIN queue : queue[n] \in Rows
  BY <1>1
<1>3. QED
  BY <1>1, <1>2 DEF Range

LEMMA QueueUnchanged ==
  ASSUME TypeInv, queue' = queue
  PROVE  Descends /\ \A t \in Range(queue) : Stays(t)
BY QueueType DEF Descends, Stays, SameKind

LEMMA FewerRows ==
  ASSUME TypeInv, NEW S, queue' = Kept(queue, S)
  PROVE  Descends /\ \A t \in Range(queue) \cap S : Stays(t)
<1>1. Kept(queue, S) \in Seq(Rows) /\ Range(Kept(queue, S)) = Range(queue) \cap S
  BY QueueType, KeptRows
<1>2. Apart(Kept(queue, S))
  BY QueueType, KeptApart
<1>3. QED
  BY <1>1, <1>2 DEF Descends, Stays, SameKind

LEMMA ChangedRows ==
  ASSUME TypeInv, queue' \in [DOMAIN queue -> Rows],
         \A n \in DOMAIN queue : SameKind(queue'[n], queue[n])
  PROVE  Descends /\ \A t \in Range(queue) : Stays(t)
<1>1. DOMAIN queue' = DOMAIN queue /\ queue' \in Seq(Rows)
  BY QueueType
<1>2. Apart(queue')
  BY <1>1, QueueType DEF Apart, SameKind
<1>3. QED
  BY <1>1, <1>2 DEF Descends, Stays, Range

LEMMA RaiseQueue ==
  ASSUME TypeInv, NEW c \in Callers, Raise(c)
  PROVE  Descends /\ \A t \in Range(queue) : Stays(t)
<1>1. ask[c] \in Asked
  BY DEF Raise, TypeInv, Callings, Calling
<1>2. ask[c].priority \in Priorities
  BY <1>1 DEF Asked
<1>3. /\ DOMAIN queue' = DOMAIN queue /\ queue' = [n \in DOMAIN queue |-> queue'[n]]
      /\ \A n \in DOMAIN queue : \/ queue'[n] = [queue[n] EXCEPT !.priority = ask[c].priority]
                                 \/ queue'[n] = queue[n]
  BY DEF Raise
<1>4. ASSUME NEW n \in DOMAIN queue PROVE queue'[n] \in Rows /\ SameKind(queue'[n], queue[n])
  <2>1. queue[n] \in Rows
    BY QueueType
  <2>2. QED
    BY <1>2, <1>3, <2>1 DEF Rows, SameKind
<1>5. QED
  BY <1>3, <1>4, ChangedRows

LEMMA FinishQueue ==
  ASSUME TypeInv, queue' = Removed
  PROVE  Descends /\ \A t \in Range(queue) : ~Unchanged(t) => Stays(t)
<1> DEFINE S == {r \in Range(queue) : ~Unchanged(r)}
<1>1. queue' = Kept(queue, S)
  BY DEF Removed
<1>2. Descends /\ \A t \in Range(queue) \cap S : Stays(t)
  BY <1>1, FewerRows
<1>3. QED
  BY <1>2

LEMMA ItemType ==
  ASSUME TypeInv, phase # "idle"
  PROVE  /\ items # <<>> /\ Item \in Rows /\ Item \in Range(items) /\ items \in Seq(Rows)
         /\ Tail(items) \in Seq(Rows) /\ Len(Tail(items)) = Len(items) - 1 /\ Len(items) \in Nat \ {0}
         /\ Range(Tail(items)) \subseteq Range(items)
         /\ (Tail(items) = <<>>) <=> Len(items) = 1
<1>1. items # <<>> /\ items \in Seq(Rows)
  BY DEF TypeInv, Rowed, Batch
<1>2. Item = items[1] /\ 1 \in DOMAIN items /\ Item \in Rows
  BY <1>1 DEF Item
<1>3. /\ Tail(items) \in Seq(Rows) /\ Len(Tail(items)) = Len(items) - 1 /\ Len(items) \in Nat \ {0}
      /\ \A n \in DOMAIN Tail(items) : n + 1 \in DOMAIN items /\ Tail(items)[n] = items[n + 1]
  BY <1>1
<1>4. (Tail(items) = <<>>) <=> Len(items) = 1
  <2> DEFINE s == Tail(items)
  <2>1. s \in Seq(Rows) /\ Len(s) = Len(items) - 1
    BY <1>3
  <2> HIDE DEF s
  <2>2. (s = <<>>) <=> Len(s) = 0
    BY <2>1
  <2>3. Len(s) = 0 <=> Len(items) = 1
    BY ONLY <1>3, <2>1
  <2>4. QED
    BY <2>2, <2>3 DEF s
<1>5. Range(Tail(items)) \subseteq Range(items) /\ Item \in Range(items)
  BY <1>2, <1>3 DEF Range
<1>6. QED
  BY <1>1, <1>2, <1>3, <1>4, <1>5

LEMMA RetryQueue ==
  ASSUME TypeInv, Retry
  PROVE  /\ Descends /\ \A t \in Range(queue) : ~Unchanged(t) => Stays(t)
         /\ ~GivesUp(Item.attempts + 1) => \A t \in Range(queue) : Stays(t)
<1>1. CASE GivesUp(Item.attempts + 1)
  BY <1>1, FinishQueue DEF Retry
<1>2. CASE ~GivesUp(Item.attempts + 1)
  <2> DEFINE k == Item.attempts + 1
  <2>1. Item.attempts \in Nat /\ k \in 0..(MaxAttempts - 1)
    <3>1. Item \in Rows
      BY ItemType DEF Retry
    <3>2. Item.attempts \in 0..(MaxAttempts - 1)
      BY <3>1 DEF Rows
    <3>3. ~(k >= MaxAttempts)
      BY <1>2 DEF GivesUp
    <3>4. QED
      BY <3>2, <3>3, Constants
  <2> HIDE DEF k
  <2>2. queue' = [n \in DOMAIN queue |-> IF Unchanged(queue[n])
                     THEN [queue[n] EXCEPT !.attempts = k, !.due = FALSE] ELSE queue[n]]
    BY <1>2 DEF Retry, k
  <2>3. ASSUME NEW n \in DOMAIN queue PROVE queue'[n] \in Rows /\ SameKind(queue'[n], queue[n])
    <3>1. queue[n] \in Rows
      BY QueueType
    <3>2. \/ queue'[n] = [queue[n] EXCEPT !.attempts = k, !.due = FALSE]
          \/ queue'[n] = queue[n]
      BY <2>2
    <3>3. QED
      BY ONLY <2>1, <3>1, <3>2 DEF Rows, SameKind
  <2>4. QED
    BY <2>2, <2>3, ChangedRows
<1>3. QED
  BY <1>1, <1>2

LEMMA TimeQueue ==
  ASSUME TypeInv, Midnight \/ \E n \in DOMAIN queue : BecomesDue(n)
  PROVE  Descends /\ \A t \in Range(queue) : Stays(t)
<1>1. /\ DOMAIN queue' = DOMAIN queue /\ queue' = [n \in DOMAIN queue |-> queue'[n]]
      /\ \A n \in DOMAIN queue :
           \/ queue'[n] = [queue[n] EXCEPT !.age = Lesser(queue[n].age + 1, TTL)]
           \/ queue'[n] = [queue[n] EXCEPT !.due = TRUE]
           \/ queue'[n] = queue[n]
  <2>1. CASE Midnight
    BY <2>1 DEF Midnight
  <2>2. ASSUME NEW n \in DOMAIN queue, BecomesDue(n)
        PROVE  /\ DOMAIN queue' = DOMAIN queue /\ queue' = [m \in DOMAIN queue |-> queue'[m]]
               /\ \A m \in DOMAIN queue : \/ queue'[m] = [queue[m] EXCEPT !.due = TRUE]
                                          \/ queue'[m] = queue[m]
    BY <2>2, QueueType DEF BecomesDue
  <2>3. QED
    BY <2>1, <2>2
<1>2. ASSUME NEW n \in DOMAIN queue PROVE queue'[n] \in Rows /\ SameKind(queue'[n], queue[n])
  <2>1. queue[n] \in Rows
    BY QueueType
  <2>2. Lesser(queue[n].age + 1, TTL) \in 0..TTL
    BY <2>1, Constants DEF Rows, Lesser
  <2>3. QED
    BY <1>1, <2>1, <2>2 DEF Rows, SameKind
<1>3. QED
  BY <1>1, <1>2, ChangedRows

LEMMA PickQueue ==
  ASSUME TypeInv, Pick
  PROVE  /\ Descends /\ \A t \in Range(queue) : ~TooOld(t) => Stays(t)
         /\ Range(queue') \subseteq Range(queue)
         /\ items' \in Seq(Rows) /\ Range(items') \subseteq Range(queue')
         /\ Len(items') \in Nat /\ Len(items') <= PerRun
         /\ RemainingToday >= 0 => Len(items') <= RemainingToday
         /\ items' = <<>> <=> phase' = "idle"
<1> DEFINE S == {r \in Range(queue) : ~TooOld(r)}
<1>1. queue' = Kept(queue, S) /\ items' = PickBatch(Kept(queue, S))
  BY DEF Pick, Fresh
<1>2. Descends /\ \A t \in Range(queue) \cap S : Stays(t)
  BY <1>1, FewerRows
<1>3. Kept(queue, S) \in Seq(Rows) /\ Range(Kept(queue, S)) = Range(queue) \cap S
  BY QueueType, KeptRows
<1>4. /\ items' \in Seq(Rows) /\ Range(items') \subseteq Range(queue')
      /\ Len(items') \in Nat /\ Len(items') <= PerRun
      /\ RemainingToday >= 0 => Len(items') <= RemainingToday
  BY <1>1, <1>3, PickBatchRows DEF TypeInv
<1>5. QED
  BY <1>1, <1>2, <1>3, <1>4 DEF Pick

LEMMA AppendRows ==
  ASSUME NEW q \in Seq(Rows), Apart(q), NEW new \in Rows,
         \A r \in Range(q) : r.slug # new.slug /\ r.id # new.id
  PROVE  /\ Append(q, new) \in Seq(Rows) /\ Apart(Append(q, new))
         /\ Range(Append(q, new)) = Range(q) \cup {new}
<1>1. /\ Append(q, new) \in Seq(Rows) /\ DOMAIN q = 1..Len(q) /\ Len(q) \in Nat
      /\ DOMAIN Append(q, new) = 1..(Len(q) + 1)
      /\ \A n \in 1..Len(q) : Append(q, new)[n] = q[n]
      /\ Append(q, new)[Len(q) + 1] = new
  BY DEF Rows
<1>2. \A n \in 1..(Len(q) + 1) : n \in 1..Len(q) \/ n = Len(q) + 1
  BY <1>1
<1>3. \A n \in 1..Len(q) : q[n].slug # new.slug /\ q[n].id # new.id
  BY <1>1 DEF Range
<1>4. Apart(Append(q, new))
  BY <1>1, <1>2, <1>3 DEF Apart
<1>5. Range(Append(q, new)) = Range(q) \cup {new}
  <2>1. Len(q) + 1 \in 1..(Len(q) + 1) /\ \A n \in 1..Len(q) : n \in 1..(Len(q) + 1)
    BY <1>1
  <2>2. QED
    BY <1>1, <1>2, <2>1 DEF Range
<1>6. QED
  BY <1>1, <1>4, <1>5

LEMMA NewRowType ==
  ASSUME TypeInv, NEW c \in Callers, step[c] # "idle", NEW i \in Ids
  PROVE  /\ NewRow(c, i) \in Rows /\ NewRow(c, i).slug = Slug(c) /\ NewRow(c, i).id = i
         /\ NewRow(c, i).type = ask[c].type /\ Slug(c) \in Slugs
<1>1. ask[c] \in Asked
  BY DEF TypeInv, Callings, Calling
<1>2. 0 \in 0..(MaxAttempts - 1) /\ 0 \in 0..TTL
  BY Constants
<1>3. QED
  BY <1>1, <1>2 DEF NewRow, Rows, Asked, Slug

LEMMA CreateQueue ==
  ASSUME TypeInv, NEW c \in Callers, Create(c)
  PROVE  \E new \in Rows :
           /\ queue' \in Seq(Rows) /\ Apart(queue') /\ Range(queue') = Range(queue) \cup {new}
           /\ new.slug = Slug(c) /\ new.type = ask[c].type /\ new.id \notin Remembered
<1> DEFINE new == NewRow(c, NewId)
<1>1. NewId \in Ids /\ WithId(NewId) = {} /\ NewId \notin Remembered
  BY NewIdIsFree DEF Create
<1>2. new \in Rows /\ new.slug = Slug(c) /\ new.id = NewId /\ new.type = ask[c].type
  BY <1>1, NewRowType DEF Create
<1>3. queue' = Append(queue, new) /\ RowsOf(Slug(c)) = {}
  BY DEF Create
<1> HIDE DEF new
<1>4. \A r \in Range(queue) : r.slug # new.slug /\ r.id # new.id
  BY <1>1, <1>2, <1>3 DEF RowsOf, WithId
<1>5. queue' \in Seq(Rows) /\ Apart(queue') /\ Range(queue') = Range(queue) \cup {new}
  BY <1>2, <1>3, <1>4, QueueType, AppendRows
<1>6. QED
  BY <1>1, <1>2, <1>5

LEMMA CopyType ==
  ASSUME TypeInv, NEW c \in Callers, copy[c] # NoRow
  PROVE  /\ copy[c] \in Rows /\ copy[c].id \in Ids /\ copy[c].slug = Slug(c)
         /\ step[c] = "write" /\ copy[c].id \in Remembered
         /\ \A r \in WithId(copy[c].id) : r.slug = Slug(c)
BY DEF TypeInv, TypeOK, Callings, Calling, Rows, Remembered, Remembers, WithId

\* The row it turns keeps its slug and its id.
LEMMA ReplaceQueue ==
  ASSUME TypeInv, NEW c \in Callers, Replace(c)
  PROVE  \/ queue' = queue /\ WithId(copy[c].id) = {}
         \/ \E new \in Rows, old \in Range(queue) :
              /\ queue' \in Seq(Rows) /\ Apart(queue')
              /\ Range(queue') = (Range(queue) \ {old}) \cup {new}
              /\ new.slug = Slug(c) /\ old.slug = Slug(c) /\ new.id = old.id
              /\ new.type = ask[c].type /\ WithId(copy[c].id) # {}
<1> DEFINE i == copy[c].id
           new == NewRow(c, i)
           others == Kept(queue, Range(queue) \ WithId(i))
<1>1. i \in Ids /\ \A r \in WithId(i) : r.slug = Slug(c)
  BY CopyType DEF Replace
<1>2. new \in Rows /\ new.slug = Slug(c) /\ new.id = i /\ new.type = ask[c].type
  BY <1>1, NewRowType DEF Replace
<1>3. queue' = IF WithId(i) = {} THEN queue ELSE Append(others, new)
  BY DEF Replace
<1>4. /\ others \in Seq(Rows) /\ Apart(others)
      /\ Range(others) = Range(queue) \ WithId(i)
  BY QueueType, KeptRows, KeptApart
<1> HIDE DEF new, others
<1>5. ASSUME NEW old \in WithId(i)
      PROVE  /\ old \in Range(queue) /\ old.slug = Slug(c) /\ old.id = i
             /\ WithId(i) = {old}
             /\ \A r \in Range(others) : r.slug # new.slug /\ r.id # new.id
  <2>1. old \in Range(queue) /\ old.slug = Slug(c) /\ old.id = i
    BY <1>1 DEF WithId
  <2>2. \A r \in Range(queue) : r.slug = old.slug \/ r.id = old.id => r = old
    BY <2>1, QueueType, ApartRows
  <2>3. WithId(i) = {old}
    BY <2>1, <2>2 DEF WithId
  <2>4. \A r \in Range(others) : r \in Range(queue) /\ r # old
    BY <1>4, <2>3
  <2>5. QED
    BY <1>2, <2>1, <2>2, <2>3, <2>4
<1>6. ASSUME NEW old \in WithId(i)
      PROVE  /\ queue' \in Seq(Rows) /\ Apart(queue')
             /\ Range(queue') = (Range(queue) \ {old}) \cup {new}
  <2>1. queue' = Append(others, new)
    BY <1>3, <1>6
  <2>2. Range(others) = Range(queue) \ {old}
    BY <1>4, <1>5, <1>6
  <2>3. QED
    BY <1>2, <1>4, <1>5, <1>6, <2>1, <2>2, AppendRows
<1>7. CASE WithId(i) = {}
  BY <1>3, <1>7
<1>8. CASE WithId(i) # {}
  <2>1. PICK old \in WithId(i) : TRUE
    BY <1>8
  <2>2. QED
    BY <1>2, <1>5, <1>6, <1>8, <2>1
<1>9. QED
  BY <1>7, <1>8

----------------------------------------------------------------------------
(* What a step that moves the queue leaves true.                           *)

QueueMoves == Descends \/ \E c \in Callers : Create(c) \/ Replace(c)

LEMMA MovesType ==
  ASSUME TypeInv, QueueMoves
  PROVE  /\ queue' \in Seq(Rows) /\ Range(queue') \subseteq Rows
         /\ \A m, n \in DOMAIN queue' :
              queue'[m].slug = queue'[n].slug \/ queue'[m].id = queue'[n].id => m = n
<1>1. queue' \in Seq(Rows) /\ Apart(queue')
  BY CreateQueue, ReplaceQueue, QueueType DEF QueueMoves, Descends
<1>2. Range(queue') \subseteq Rows
  BY <1>1 DEF Range
<1>3. QED
  BY <1>1, <1>2 DEF Apart

LEMMA RemembersKept ==
  ASSUME TypeInv, QueueMoves, NEW i \in Remembered, NEW s, Remembers(i, s)
  PROVE  \A r \in Range(queue') : r.id = i => r.slug = s
<1>1. CASE Descends
  BY <1>1 DEF Descends, SameKind, Remembers
<1>2. ASSUME NEW c \in Callers, Create(c) PROVE \A r \in Range(queue') : r.id = i => r.slug = s
  BY <1>2, CreateQueue DEF Remembers
<1>3. ASSUME NEW c \in Callers, Replace(c) PROVE \A r \in Range(queue') : r.id = i => r.slug = s
  BY <1>3, ReplaceQueue DEF Remembers
<1>4. QED
  BY <1>1, <1>2, <1>3 DEF QueueMoves

LEMMA CallingKept ==
  ASSUME TypeInv, QueueMoves, known \subseteq known', NEW c \in Callers,
         step'[c] = step[c], ask'[c] = ask[c], copy'[c] = copy[c]
  PROVE  Calling(c)'
<1>1. Calling(c)
  BY DEF TypeInv, Callings
<1>2. copy[c] # NoRow => \A r \in Range(queue') : r.id = copy[c].id => r.slug = Slug(c)
  <2> SUFFICES ASSUME copy[c] # NoRow
      PROVE  \A r \in Range(queue') : r.id = copy[c].id => r.slug = Slug(c)
    OBVIOUS
  <2>1. copy[c].id \in Remembered /\ Remembers(copy[c].id, Slug(c))
    BY <1>1, CopyType DEF Calling
  <2>2. QED
    BY <2>1, RemembersKept
<1>3. QED
  BY <1>1, <1>2 DEF Calling, Remembers, Slug

LEMMA BatchKept ==
  ASSUME TypeInv, QueueMoves, Range(items') \subseteq Range(items),
         phase' = "idle" <=> items' = <<>>,
         phase' \in {"log", "done"} => told'[Item'.slug] = Item'.type
  PROVE  Batch'
<1>1. ASSUME NEW t \in Range(items) PROVE \A r \in Range(queue') : r.id = t.id => r.slug = t.slug
  <2>1. t.id \in Remembered /\ Remembers(t.id, t.slug)
    BY DEF TypeInv, Batch, Remembered
  <2>2. QED
    BY <2>1, RemembersKept
<1>2. \A t \in Range(items') : Remembers(t.id, t.slug)'
  BY <1>1 DEF Remembers
<1>3. \A t, u \in Range(items') : t.slug = u.slug => t = u
  BY DEF TypeInv, Batch
<1>4. QED
  BY <1>2, <1>3 DEF Batch

----------------------------------------------------------------------------
(* Types, action by action: the callers.                                   *)

LEMMA Kinds ==
  /\ UPDATED \in Types /\ DELETED \in Types /\ UPDATED # DELETED
  /\ {DeletedFirst, NewJob, Backfilled} \subseteq Priorities
  /\ \A t \in Types : t = UPDATED \/ t = DELETED
BY DEF UPDATED, DELETED, Types, Priorities

LEMMA CallingsKept ==
  ASSUME TypeInv, QueueMoves, known \subseteq known', NEW c \in Callers, Calling(c)',
         \A d \in Callers : d # c =>
           step'[d] = step[d] /\ ask'[d] = ask[d] /\ copy'[d] = copy[d]
  PROVE  Callings'
BY CallingKept DEF Callings

LEMMA CallersRest ==
  ASSUME TypeInv, QueueMoves, known \subseteq known', UNCHANGED caller
  PROVE  Callings'
BY CallingKept DEF Callings, caller

LEMMA WorkerRests ==
  ASSUME TypeInv, QueueMoves, UNCHANGED <<worker, told>>
  PROVE  Batch' /\ items' \in Seq(Rows)
<1>1. Range(items') \subseteq Range(items) /\ items' \in Seq(Rows)
  BY DEF worker, TypeInv, Rowed
<1>2. /\ phase' = "idle" <=> items' = <<>>
      /\ phase' \in {"log", "done"} => told'[Item'.slug] = Item'.type
  BY DEF worker, Item, TypeInv, Batch
<1>3. QED
  BY <1>1, <1>2, BatchKept

\* Asks, whatever it is that asks.
Asking(c, s) == \E t \in Types, p \in Priorities, n \in Reading \cup {"look"} : Asks(c, s, t, p, n)

\* Who asks, and who only reads the job for now.
Starts(c, s) == ReadToClose(c, s) \/ ReadToActivate(c, s) \/ Enriched(c, s) \/ Backfill(c, s)

LEMMA WhoAsks ==
  ASSUME TypeInv, NEW c \in Callers, NEW s \in Slugs, Starts(c, s)
  PROVE  Asking(c, s) /\ active' = active /\ shown' \subseteq Slugs
<1> USE Kinds DEF TypeInv, TypeOK, jobs
<1>1. CASE ReadToClose(c, s)
  BY <1>1 DEF ReadToClose, Asking, Reading
<1>2. CASE ReadToActivate(c, s)
  BY <1>2 DEF ReadToActivate, Asking, Reading
<1>3. CASE Enriched(c, s)
  BY <1>3 DEF Enriched, Asking
<1>4. CASE Backfill(c, s)
  BY <1>4 DEF Backfill, Asking
<1>5. QED
  BY <1>1, <1>2, <1>3, <1>4 DEF Starts

LEMMA AskingFields ==
  ASSUME TypeInv, NEW c \in Callers, NEW s \in Slugs, Asking(c, s)
  PROVE  /\ step[c] = "idle" /\ copy[c] = NoRow
         /\ step' \in [Callers -> Steps]
         /\ ask' \in [Callers -> Asked \cup {NoAsk}]
         /\ asks' \in 0..MaxAsks
         /\ step'[c] \in Reading \cup {"look"} /\ ask'[c] \in Asked /\ ask'[c].slug = s /\ copy' = copy
         /\ \A d \in Callers : d # c => step'[d] = step[d] /\ ask'[d] = ask[d]
         /\ UNCHANGED <<queue, retried, worker, logged, days, mishaps, history>>
<1>1. PICK t \in Types, p \in Priorities, n \in Reading \cup {"look"} : Asks(c, s, t, p, n)
  BY DEF Asking
<1>2. [slug |-> s, type |-> t, priority |-> p] \in Asked
  BY DEF Asked
<1>3. asks' \in 0..MaxAsks
  BY <1>1, Constants DEF Asks, TypeInv, TypeOK
<1>4. step[c] = "idle" /\ copy[c] = NoRow
  BY <1>1 DEF Asks, TypeInv, Callings, Calling
<1>5. /\ step' = [step EXCEPT ![c] = n]
      /\ ask' = [ask EXCEPT ![c] = [slug |-> s, type |-> t, priority |-> p]]
      /\ UNCHANGED <<queue, copy, retried, worker, logged, days, mishaps, history>>
  BY <1>1 DEF Asks
<1>6. QED
  BY <1>2, <1>3, <1>4, <1>5 DEF TypeInv, TypeOK, Steps, Reading, Enqueueing

LEMMA AskingType ==
  ASSUME TypeInv, NEW c \in Callers, NEW s \in Slugs, Starts(c, s)
  PROVE  TypeInv'
<1>1. Asking(c, s) /\ active' = active /\ shown' \subseteq Slugs
  BY WhoAsks
<1>2. QueueMoves
  BY <1>1, AskingFields, QueueUnchanged DEF QueueMoves
<1>3. Calling(c)'
  BY <1>1, AskingFields DEF Calling, Reading
<1>4. Callings'
  BY <1>1, <1>2, <1>3, AskingFields, CallingsKept DEF logged
<1>5. Batch' /\ items' \in Seq(Rows)
  BY <1>1, <1>2, AskingFields, WorkerRests DEF history
<1>6. TypeOK'
  BY <1>1, AskingFields DEF TypeInv, TypeOK, worker, logged, history
<1>7. Rowed'
  BY <1>2, <1>5, MovesType DEF Rowed
<1>8. QED
  BY <1>4, <1>5, <1>6, <1>7 DEF TypeInv

LEMMA HideType == ASSUME TypeInv, NEW s \in Slugs, Hide(s) PROVE TypeInv'
<1>1. /\ UNCHANGED <<active, queue, caller, worker, logged, days, mishaps, history>>
      /\ asks' \in 0..MaxAsks /\ shown' \subseteq Slugs
  BY Constants DEF Hide, TypeInv, TypeOK
<1>2. QueueMoves
  BY <1>1, QueueUnchanged DEF QueueMoves
<1>3. Callings' /\ Batch' /\ items' \in Seq(Rows)
  BY <1>1, <1>2, CallersRest, WorkerRests DEF logged, history
<1>4. TypeOK'
  BY <1>1 DEF TypeInv, TypeOK, caller, worker, logged, history
<1>5. QED
  BY <1>2, <1>3, <1>4, MovesType DEF TypeInv, Rowed

LEMMA LookType == ASSUME TypeInv, NEW c \in Callers, Look(c) PROVE TypeInv'
<1>1. /\ UNCHANGED <<jobs, queue, ask, retried, worker, logged, bounds, history>>
      /\ step' = [step EXCEPT ![c] = "write"] /\ step[c] = "look" /\ MayEnqueue(c)
  BY DEF Look
<1>2. PICK row \in RowsOf(Slug(c)) \cup {NoRow} : copy' = [copy EXCEPT ![c] = row]
  BY DEF Look
<1>3. /\ row # NoRow => row \in Range(queue) /\ row \in Rows /\ row.slug = Slug(c)
      /\ row \in Rows \cup {NoRow}
  BY <1>2, QueueType DEF RowsOf
<1>4. QueueMoves
  BY <1>1, QueueUnchanged DEF QueueMoves
<1>5. row # NoRow => Remembers(row.id, Slug(c))
  BY <1>3, QueueType, ApartRows DEF Remembers
<1>6. /\ step'[c] = "write" /\ copy'[c] = row /\ ask' = ask /\ ask[c] \in Asked
      /\ \A d \in Callers : d # c => step'[d] = step[d] /\ copy'[d] = copy[d]
  BY <1>1, <1>2 DEF TypeInv, TypeOK, Callings, Calling
<1>7. Calling(c)'
  BY <1>1, <1>3, <1>5, <1>6 DEF Calling, MayEnqueue, Slug, Remembers, logged
<1>8. Callings' /\ Batch' /\ items' \in Seq(Rows)
  BY <1>1, <1>4, <1>6, <1>7, CallingsKept, WorkerRests DEF logged, history
<1>9. TypeOK'
  BY <1>1, <1>2, <1>3 DEF TypeInv, TypeOK, Steps, Enqueueing, jobs, worker, logged, bounds, history
<1>10. QED
  BY <1>4, <1>8, <1>9, MovesType DEF TypeInv, Rowed

LEMMA FinishedFields ==
  ASSUME TypeInv, NEW c \in Callers, Finished(c)
  PROVE  /\ step' \in [Callers -> Steps]
         /\ ask' \in [Callers -> Asked \cup {NoAsk}]
         /\ copy' \in [Callers -> Rows \cup {NoRow}] /\ retried' \subseteq Callers
         /\ step'[c] = "idle" /\ ask'[c] = NoAsk /\ copy'[c] = NoRow
         /\ \A d \in Callers : d # c =>
              step'[d] = step[d] /\ ask'[d] = ask[d] /\ copy'[d] = copy[d]
         /\ Calling(c)'
<1>1. /\ step' \in [Callers -> Steps]
      /\ ask' \in [Callers -> Asked \cup {NoAsk}]
      /\ copy' \in [Callers -> Rows \cup {NoRow}] /\ retried' \subseteq Callers
      /\ step'[c] = "idle" /\ ask'[c] = NoAsk /\ copy'[c] = NoRow
      /\ \A d \in Callers : d # c =>
           step'[d] = step[d] /\ ask'[d] = ask[d] /\ copy'[d] = copy[d]
  BY DEF Finished, TypeInv, TypeOK, Steps
<1>2. Calling(c)'
  BY <1>1 DEF Calling
<1>3. QED
  BY <1>1, <1>2

\* A caller that is done, whatever it did to the queue.
LEMMA FinishedType ==
  ASSUME TypeInv, QueueMoves, NEW c \in Callers, Finished(c), lost' \subseteq Slugs,
         asks' \in 0..MaxAsks, UNCHANGED <<jobs, worker, logged, days, mishaps, told, expired>>
  PROVE  TypeInv'
<1>1. Callings'
  BY FinishedFields, CallingsKept DEF logged
<1>2. Batch' /\ items' \in Seq(Rows)
  BY WorkerRests
<1>3. TypeOK'
  BY FinishedFields, MovesType DEF TypeInv, TypeOK, jobs, worker, logged
<1>4. QED
  BY <1>1, <1>2, <1>3, MovesType DEF TypeInv, Rowed

LEMMA SlugType ==
  ASSUME TypeInv, NEW c \in Callers, step[c] # "idle"
  PROVE  ask[c] \in Asked /\ Slug(c) \in Slugs /\ ask[c].type \in Types
BY DEF TypeInv, Callings, Calling, Slug, Asked

\* Who has written the job goes on to the queue, or has nothing to announce.
LEMMA WrittenFields ==
  ASSUME TypeInv, NEW c \in Callers, step[c] \in Reading, Written(c)
  PROVE  /\ step' \in [Callers -> Steps]
         /\ ask' \in [Callers -> Asked \cup {NoAsk}]
         /\ copy' \in [Callers -> Rows \cup {NoRow}] /\ retried' \subseteq Callers
         /\ \A d \in Callers : d # c =>
              step'[d] = step[d] /\ ask'[d] = ask[d] /\ copy'[d] = copy[d]
         /\ Calling(c)'
         /\ step[c] = "change" =>
              step'[c] = "look" /\ ask'[c] = ask[c] /\ copy'[c] = NoRow
         /\ UNCHANGED <<shown, queue, worker, logged, bounds, told, expired>>
<1>1. UNCHANGED <<shown, queue, worker, logged, bounds, told, expired>>
  BY DEF Written
<1>2. CASE step[c] = "quietly"
  BY <1>1, <1>2, FinishedFields DEF Written
<1>3. CASE step[c] = "change"
  <2>1. step' = [step EXCEPT ![c] = "look"] /\ UNCHANGED <<ask, copy, retried>>
    BY <1>3 DEF Written
  <2>2. ask[c] \in Asked /\ copy[c] = NoRow
    BY <1>3 DEF TypeInv, Callings, Calling
  <2>3. step' \in [Callers -> Steps] /\ step'[c] = "look"
        /\ \A d \in Callers : d # c => step'[d] = step[d]
    BY <2>1 DEF TypeInv, TypeOK, Steps, Enqueueing
  <2>4. Calling(c)'
    BY <2>1, <2>2, <2>3 DEF Calling
  <2>5. QED
    BY <1>1, <1>3, <2>1, <2>2, <2>3, <2>4 DEF TypeInv, TypeOK
<1>4. QED
  BY <1>2, <1>3 DEF Reading

LEMMA WrittenType ==
  ASSUME TypeInv, NEW c \in Callers, Close(c) \/ Activate(c)
  PROVE  TypeInv'
<1>1. step[c] \in Reading /\ Written(c)
  BY DEF Close, Activate
<1>2. Slug(c) \in Slugs
  BY <1>1, SlugType DEF Reading
<1>3. active' \subseteq Slugs /\ lost' \subseteq Slugs
  BY <1>2 DEF Close, Activate, TypeInv, TypeOK
<1>4. QueueMoves
  BY <1>1, WrittenFields, QueueUnchanged DEF QueueMoves
<1>5. Callings'
  BY <1>1, <1>4, WrittenFields, CallingsKept DEF logged
<1>6. Batch' /\ items' \in Seq(Rows)
  BY <1>1, <1>4, WrittenFields, WorkerRests
<1>7. TypeOK'
  BY <1>1, <1>3, WrittenFields DEF TypeInv, TypeOK, worker, logged, bounds
<1>8. QED
  BY <1>4, <1>5, <1>6, <1>7, MovesType DEF TypeInv, Rowed

LEMMA WriterType ==
  ASSUME TypeInv, NEW c \in Callers,
         Drop(c) \/ Create(c) \/ CreateThrows(c) \/ Replace(c) \/ Raise(c) \/ CallerDies(c)
  PROVE  TypeInv'
<1>1. /\ step[c] # "idle" /\ Finished(c)
      /\ UNCHANGED <<jobs, worker, logged, days, mishaps, told, expired>>
  BY DEF Drop, Create, CreateThrows, Replace, Raise, CallerDies, history, bounds
<1>2. QueueMoves
  BY QueueUnchanged, RaiseQueue DEF QueueMoves, Drop, CreateThrows, CallerDies
<1>3. lost' \subseteq Slugs
  <2>1. lost' \subseteq lost \cup {Slug(c)}
    BY DEF Drop, Create, CreateThrows, Replace, Raise, CallerDies, history
  <2>2. QED
    BY <1>1, <2>1, SlugType DEF TypeInv, TypeOK
<1>4. asks' \in 0..MaxAsks
  <2>1. asks' = asks \/ (asks < MaxAsks /\ asks' = asks + 1)
    BY DEF Drop, Create, CreateThrows, Replace, Raise, CallerDies, bounds
  <2>2. QED
    BY <2>1, Constants DEF TypeInv, TypeOK
<1>5. QED
  BY <1>1, <1>2, <1>3, <1>4, FinishedType

LEMMA CreateConflictsType ==
  ASSUME TypeInv, NEW c \in Callers, CreateConflicts(c)
  PROVE  TypeInv'
<1>1. /\ UNCHANGED <<jobs, queue, ask, copy, worker, logged, bounds, history>>
      /\ step' = [step EXCEPT ![c] = "look"] /\ step[c] = "write" /\ copy[c] = NoRow
      /\ retried' \subseteq Callers
  BY DEF CreateConflicts, TypeInv, TypeOK
<1>2. QueueMoves
  BY <1>1, QueueUnchanged DEF QueueMoves
<1>3. /\ step'[c] = "look" /\ ask[c] \in Asked
      /\ \A d \in Callers : d # c => step'[d] = step[d]
  BY <1>1 DEF TypeInv, TypeOK, Callings, Calling
<1>4. Calling(c)'
  BY <1>1, <1>3 DEF Calling
<1>5. Callings' /\ Batch' /\ items' \in Seq(Rows)
  BY <1>1, <1>2, <1>3, <1>4, CallingsKept, WorkerRests DEF logged, history
<1>6. TypeOK'
  BY <1>1 DEF TypeInv, TypeOK, Steps, Enqueueing, jobs, worker, logged, bounds, history
<1>7. QED
  BY <1>2, <1>5, <1>6, MovesType DEF TypeInv, Rowed

----------------------------------------------------------------------------
(* Types, action by action: the worker and time.                           *)

Phases == {"idle", "match", "skip", "send", "log", "done", "retry"}

\* What a step of the worker or of time has to keep.
StepTyped ==
  /\ QueueMoves /\ known \subseteq known' /\ known' \subseteq Slugs
  /\ latest' \in [Slugs -> Types \cup {"none"}] /\ sent' \in [Types -> Nat]
  /\ days' \in 0..MaxDays /\ mishaps' \in 0..MaxMishaps
  /\ told' \in [Slugs -> Types \cup {"none"}] /\ lost' \subseteq Slugs /\ expired' \in BOOLEAN
  /\ UNCHANGED <<jobs, caller, asks>>

\* What it has to leave in the batch.
BatchTyped ==
  /\ Batch' /\ items' \in Seq(Rows) /\ Len(items') <= PerRun /\ phase' \in Phases

LEMMA StepType ==
  ASSUME TypeInv, StepTyped, BatchTyped
  PROVE  TypeInv'
<1>1. Callings'
  BY CallersRest DEF StepTyped
<1>2. Range(items') \subseteq Rows
  BY DEF BatchTyped, Range
<1>3. phase' # "idle" => items' # <<>>
  BY DEF BatchTyped, Batch
<1>4. TypeOK'
  BY <1>2, <1>3, MovesType DEF StepTyped, BatchTyped, Phases, TypeInv, TypeOK, jobs, caller
<1>5. QED
  BY <1>1, <1>4, MovesType DEF StepTyped, BatchTyped, TypeInv, Rowed

LEMMA GoesOnBatch ==
  ASSUME TypeInv, QueueMoves, phase # "idle", GoesOn
  PROVE  BatchTyped /\ Len(items') = Len(items) - 1 /\ phase' \in {"idle", "match"}
<1>1. items' = Tail(items) /\ phase' = IF Len(items) = 1 THEN "idle" ELSE "match"
  BY DEF GoesOn
<1>2. /\ items' \in Seq(Rows) /\ Range(items') \subseteq Range(items)
      /\ Len(items') = Len(items) - 1 /\ Len(items) \in Nat \ {0}
      /\ (items' = <<>>) <=> Len(items) = 1
  BY <1>1, ItemType
<1>3. Batch'
  <2>1. phase' = "idle" <=> items' = <<>>
    BY <1>1, <1>2
  <2>2. phase' \notin {"log", "done"}
    BY <1>1
  <2>3. QED
    BY <1>2, <2>1, <2>2, BatchKept
<1>4. Len(items') <= PerRun
  BY <1>2, Constants DEF TypeInv, TypeOK
<1>5. QED
  BY <1>1, <1>2, <1>3, <1>4 DEF BatchTyped, Phases

LEMMA StopsBatch ==
  ASSUME TypeInv, QueueMoves, phase' = "idle", items' = <<>>
  PROVE  BatchTyped
<1>1. items' \in Seq(Rows) /\ Range(items') = {} /\ Len(items') = 0
  BY DEF Range
<1>2. Batch'
  BY <1>1, BatchKept
<1>3. QED
  BY <1>1, <1>2, Constants DEF BatchTyped, Phases

LEMMA SameItemBatch ==
  ASSUME TypeInv, QueueMoves, phase # "idle", phase' \in Phases \ {"idle"}, items' = items,
         phase' \in {"log", "done"} => told'[Item.slug] = Item.type
  PROVE  BatchTyped
<1>1. items' \in Seq(Rows) /\ Range(items') = Range(items) /\ items # <<>> /\ Item' = Item
      /\ Len(items') <= PerRun
  BY ItemType DEF Item, TypeInv, TypeOK
<1>2. Batch'
  BY <1>1, BatchKept
<1>3. QED
  BY <1>1, <1>2 DEF BatchTyped, Phases

LEMMA PickType == TypeInv /\ Pick => TypeInv'
<1> SUFFICES ASSUME TypeInv, Pick PROVE TypeInv'
  OBVIOUS
<1>1. /\ Descends /\ Range(queue') \subseteq Range(queue)
      /\ items' \in Seq(Rows) /\ Range(items') \subseteq Range(queue')
      /\ Len(items') <= PerRun /\ (items' = <<>> <=> phase' = "idle")
  BY PickQueue
<1>2. QueueMoves
  BY <1>1 DEF QueueMoves
<1>3. \A r, t \in Range(queue') : r.slug = t.slug \/ r.id = t.id => r = t
  BY <1>1, ApartRows DEF Descends
<1>4. \A t \in Range(items') : Remembers(t.id, t.slug)'
  BY <1>1, <1>3 DEF Remembers
<1>5. \A t, u \in Range(items') : t.slug = u.slug => t = u
  BY <1>1, <1>3
<1>6. phase' \in {"idle", "match"}
  BY DEF Pick
<1>7. Batch'
  BY <1>1, <1>4, <1>5, <1>6 DEF Batch
<1>8. StepTyped
  <2>1. lost' \subseteq Slugs
    <3>1. \A r \in Range(queue) : r.slug \in Slugs
      BY QueueType DEF Rows
    <3>2. QED
      BY <3>1 DEF Pick, TypeInv, TypeOK
  <2>2. UNCHANGED <<jobs, caller, logged, bounds, told>> /\ expired' \in BOOLEAN
    BY DEF Pick, TypeInv, TypeOK
  <2>3. QED
    BY <1>2, <2>1, <2>2 DEF StepTyped, TypeInv, TypeOK, logged, bounds
<1>9. QED
  BY <1>1, <1>6, <1>7, <1>8, StepType DEF BatchTyped, Phases

LEMMA MishapType == ASSUME TypeOK, Mishap PROVE mishaps' \in 0..MaxMishaps
BY Constants DEF TypeOK, Mishap

LEMMA SameItemType ==
  ASSUME TypeInv, Match \/ Send \/ SendFails \/ Log \/ LogFails
  PROVE  TypeInv' /\ items' = items /\ queue' = queue /\ phase # "idle"
<1>1. /\ phase # "idle" /\ phase' \in Phases \ {"idle"} /\ items' = items /\ queue' = queue
      /\ UNCHANGED <<jobs, caller, asks, days, lost, expired>>
  BY DEF Match, Send, SendFails, Log, LogFails, Phases, bounds, history
<1>2. QueueMoves
  BY <1>1, QueueUnchanged DEF QueueMoves
<1>3. /\ Item \in Rows /\ Item.slug \in Slugs /\ Item.type \in Types
  BY <1>1, ItemType DEF Rows
<1>4. mishaps' \in 0..MaxMishaps
  BY MishapType DEF TypeInv, TypeOK, Match, Send, SendFails, Log, LogFails, bounds
<1>5. /\ told' \in [Slugs -> Types \cup {"none"}]
      /\ phase' \in {"log", "done"} => told'[Item.slug] = Item.type
  <2>1. CASE Send
    BY <1>3, <2>1 DEF Send, TypeInv, TypeOK
  <2>2. CASE Match \/ SendFails \/ LogFails
    BY <2>2 DEF Match, SendFails, LogFails, history, TypeInv, TypeOK
  <2>3. CASE Log
    BY <2>3 DEF Log, history, TypeInv, TypeOK, Batch
  <2>4. QED
    BY <2>1, <2>2, <2>3
<1>6. /\ known \subseteq known' /\ known' \subseteq Slugs
      /\ latest' \in [Slugs -> Types \cup {"none"}] /\ sent' \in [Types -> Nat]
  <2>1. CASE Log
    <3>1. sent[Item.type] + 1 \in Nat
      BY <1>3 DEF TypeInv, TypeOK
    <3>2. QED
      BY <1>3, <2>1, <3>1 DEF Log, TypeInv, TypeOK
  <2>2. CASE Match \/ Send \/ SendFails \/ LogFails
    BY <2>2 DEF Match, Send, SendFails, LogFails, logged, TypeInv, TypeOK
  <2>3. QED
    BY <2>1, <2>2
<1>7. BatchTyped
  BY <1>1, <1>2, <1>5, SameItemBatch
<1>8. StepTyped
  BY <1>1, <1>2, <1>4, <1>5, <1>6 DEF StepTyped, TypeInv, TypeOK
<1>9. QED
  BY <1>1, <1>7, <1>8, StepType

LEMMA StopsType == TypeInv /\ (QuotaExceeded \/ Die) => TypeInv'
<1> SUFFICES ASSUME TypeInv, QuotaExceeded \/ Die PROVE TypeInv'
  OBVIOUS
<1>1. /\ phase' = "idle" /\ items' = <<>> /\ queue' = queue
      /\ UNCHANGED <<jobs, caller, logged, asks, days, history>>
  BY DEF QuotaExceeded, Die
<1>2. QueueMoves
  BY <1>1, QueueUnchanged DEF QueueMoves
<1>3. mishaps' \in 0..MaxMishaps
  BY MishapType DEF TypeInv, QuotaExceeded, Die
<1>4. StepTyped
  BY <1>1, <1>2, <1>3 DEF StepTyped, TypeInv, TypeOK, logged, history
<1>5. QED
  BY <1>1, <1>2, <1>4, StopsBatch, StepType

LEMMA GoesOnType ==
  ASSUME TypeInv, Skip \/ Done \/ Retry
  PROVE  /\ TypeInv' /\ Len(items') = Len(items) - 1 /\ phase' \in {"idle", "match"}
         /\ Descends /\ \A t \in Range(queue) : ~Unchanged(t) => Stays(t)
<1>1. /\ phase # "idle" /\ GoesOn
      /\ UNCHANGED <<jobs, caller, logged, bounds, told, expired>>
  BY DEF Skip, Done, Retry, Finish, history
<1>2. Descends /\ \A t \in Range(queue) : ~Unchanged(t) => Stays(t)
  BY FinishQueue, RetryQueue DEF Skip, Done, Finish
<1>3. lost' \subseteq lost \cup {Item.slug}
  BY DEF Skip, Done, Retry, history
<1>4. Item.slug \in Slugs
  BY <1>1, ItemType DEF Rows
<1>5. QueueMoves
  BY <1>2 DEF QueueMoves
<1>6. StepTyped
  BY <1>1, <1>3, <1>4, <1>5 DEF StepTyped, TypeInv, TypeOK, logged, bounds
<1>7. QED
  BY <1>1, <1>2, <1>5, <1>6, GoesOnBatch, StepType

LEMMA TimeType ==
  ASSUME TypeInv, Midnight \/ \E n \in DOMAIN queue : BecomesDue(n)
  PROVE  TypeInv'
<1>1. QueueMoves
  BY TimeQueue DEF QueueMoves
<1>2. Batch' /\ items' \in Seq(Rows) /\ UNCHANGED worker
  BY <1>1, WorkerRests DEF Midnight, BecomesDue, history
<1>3. StepTyped
  <2>1. CASE Midnight
    <3>1. /\ days' \in 0..MaxDays /\ mishaps' \in 0..MaxMishaps /\ sent' \in [Types -> Nat]
      BY <2>1, Constants, MishapType DEF Midnight, TypeInv, TypeOK
    <3>2. UNCHANGED <<jobs, caller, known, latest, asks, history>>
      BY <2>1 DEF Midnight
    <3>3. QED
      BY <1>1, <3>1, <3>2 DEF StepTyped, TypeInv, TypeOK, history
  <2>2. CASE \E n \in DOMAIN queue : BecomesDue(n)
    <3>1. UNCHANGED <<jobs, caller, logged, bounds, history>>
      BY <2>2 DEF BecomesDue
    <3>2. QED
      BY <1>1, <3>1 DEF StepTyped, TypeInv, TypeOK, logged, bounds, history
  <2>3. QED
    BY <2>1, <2>2
<1>4. BatchTyped
  BY <1>2 DEF BatchTyped, Phases, TypeInv, TypeOK, worker
<1>5. QED
  BY <1>3, <1>4, StepType

LEMMA TypeInvInit == Init => TypeInv
<1> SUFFICES ASSUME Init PROVE TypeInv
  OBVIOUS
<1>1. queue = <<>> /\ items = <<>> /\ phase = "idle"
  BY DEF Init
<1>2. Range(queue) = {} /\ Range(items) = {} /\ queue \in Seq(Rows) /\ items \in Seq(Rows)
      /\ Len(items) = 0 /\ DOMAIN queue = {}
  BY <1>1 DEF Range
<1>3. sent \in [Types -> Nat]
  BY Constants DEF Init
<1>4. TypeOK
  <2>1. /\ latest \in [Slugs -> Types \cup {"none"}] /\ told \in [Slugs -> Types \cup {"none"}]
        /\ known \subseteq Slugs
    BY Kinds, Constants DEF Init
  <2>2. /\ step \in [Callers -> Steps]
        /\ ask \in [Callers -> Asked \cup {NoAsk}] /\ copy \in [Callers -> Rows \cup {NoRow}]
    BY DEF Init, Steps
  <2>3. /\ active \subseteq Slugs /\ shown \subseteq Slugs /\ retried \subseteq Callers
        /\ lost \subseteq Slugs /\ expired \in BOOLEAN /\ Len(items) <= PerRun
        /\ asks \in 0..MaxAsks /\ days \in 0..MaxDays /\ mishaps \in 0..MaxMishaps
    <3>1. /\ active = Slugs /\ shown = Slugs /\ retried = {} /\ lost = {} /\ expired = FALSE
          /\ asks = 0 /\ days = 0 /\ mishaps = 0
      BY DEF Init
    <3>2. 0 <= PerRun /\ 0 \in 0..MaxAsks /\ 0 \in 0..MaxDays /\ 0 \in 0..MaxMishaps
      BY Constants
    <3>3. QED
      BY <1>2, <3>1, <3>2
  <2>4. QED
    BY <1>1, <1>2, <1>3, <2>1, <2>2, <2>3 DEF TypeOK
<1>5. Callings
  BY DEF Init, Callings, Calling
<1>6. Batch
  BY <1>1, <1>2 DEF Batch
<1>7. QED
  BY <1>2, <1>4, <1>5, <1>6 DEF TypeInv, Rowed

LEMMA TypeInvNext == TypeInv /\ [Next]_vars => TypeInv'
<1> SUFFICES ASSUME TypeInv, [Next]_vars PROVE TypeInv'
  OBVIOUS
<1>1. CASE UNCHANGED vars
  <2>1. QueueMoves
    BY <1>1, QueueUnchanged DEF QueueMoves, vars
  <2>2. StepTyped
    BY <1>1, <2>1 DEF StepTyped, TypeInv, TypeOK, vars, logged, bounds, history
  <2>3. BatchTyped
    BY <1>1, <2>1, WorkerRests DEF BatchTyped, Phases, TypeInv, TypeOK, vars, worker, history
  <2>4. QED
    BY <2>2, <2>3, StepType
<1>2. ASSUME NEW c \in Callers, Caller(c) PROVE TypeInv'
  BY <1>2, AskingType, WrittenType, LookType, WriterType, CreateConflictsType DEF Caller, Starts
<1>3. ASSUME NEW s \in Slugs, Hide(s) PROVE TypeInv'
  BY <1>3, HideType
<1>4. CASE Worker
  BY <1>4, PickType, SameItemType, StopsType, GoesOnType DEF Worker
<1>5. CASE Midnight \/ \E n \in DOMAIN queue : BecomesDue(n)
  BY <1>5, TimeType
<1>6. QED
  BY <1>1, <1>2, <1>3, <1>4, <1>5 DEF Next

(* Every variable keeps its type: no two rows of a slug or of an id, an id *)
(* that nobody remembers for a new one, and fewer attempts than the limit  *)
(* in every row that is left.                                              *)
THEOREM TypeCorrect == Spec => []TypeOK
<1>1. TypeInv => TypeOK
  BY DEF TypeInv
<1>2. QED
  BY <1>1, TypeInvInit, TypeInvNext, PTL DEF Spec

----------------------------------------------------------------------------
(* The quota.                                                              *)

LEMMA CoveredNumbers ==
  ASSUME TypeInv
  PROVE  /\ sent[UPDATED] \in Nat /\ sent[DELETED] \in Nat /\ Len(items) \in Nat
         /\ DailyLimit \in Nat /\ (phase = "idle" => Len(items) = 0)
         /\ (phase # "idle" => Len(items) > 0)
<1>1. sent[UPDATED] \in Nat /\ sent[DELETED] \in Nat /\ DailyLimit \in Nat
  BY Kinds, Constants DEF TypeInv, TypeOK
<1>2. items \in Seq(Rows) /\ (phase = "idle" <=> items = <<>>)
  BY DEF TypeInv, Rowed, Batch
<1>3. QED
  BY <1>1, <1>2

LEMMA CoveredInit == Init => Covered
<1> SUFFICES ASSUME Init PROVE Covered
  OBVIOUS
<1>1. PICK n \in 0..DailyLimit : sent = [t \in Types |-> IF t = UPDATED THEN n ELSE 0]
  BY DEF Init
<1>2. sent[UPDATED] = n /\ sent[DELETED] = 0 /\ n \in Nat /\ n <= DailyLimit
  BY <1>1, Kinds, Constants
<1>3. Len(items) = 0 /\ phase = "idle"
  BY DEF Init
<1>4. QED
  BY <1>2, <1>3, Constants DEF Covered

LEMMA CoveredNext ==
  ASSUME TypeInv, Covered, [Next]_vars
  PROVE  Covered'
<1>0. TypeInv'
  BY TypeInvNext
<1>1. CASE UNCHANGED <<worker, sent>>
  BY <1>1 DEF Covered, worker
<1>2. CASE Pick
  <2>1. /\ phase = "idle" /\ UNCHANGED sent /\ phase' \in {"idle", "match"}
        /\ Len(items') \in Nat /\ (RemainingToday >= 0 => Len(items') <= RemainingToday)
    BY <1>2, PickQueue DEF Pick, logged
  <2>2. sent[UPDATED] + sent[DELETED] <= DailyLimit
    BY <2>1, CoveredNumbers DEF Covered
  <2>3. RemainingToday >= 0 /\ RemainingToday = DailyLimit - sent[UPDATED] - sent[DELETED]
    BY <2>2, CoveredNumbers DEF RemainingToday
  <2>4. QED
    BY <2>1, <2>3, CoveredNumbers DEF Covered
<1>3. CASE Match \/ Send \/ SendFails \/ LogFails
  <2>1. phase # "done" /\ phase' # "done" /\ items' = items /\ sent' = sent
    BY <1>3 DEF Match, Send, SendFails, LogFails, logged
  <2>2. QED
    BY <2>1 DEF Covered
<1>4. CASE Log
  <2>1. phase # "done" /\ phase' = "done" /\ items' = items
        /\ sent' = [sent EXCEPT ![Item.type] = @ + 1] /\ phase # "idle"
    BY <1>4 DEF Log
  <2>2. Item.type \in Types
    BY <2>1, ItemType DEF Rows
  <2>3. sent'[UPDATED] + sent'[DELETED] = sent[UPDATED] + sent[DELETED] + 1
    <3>1. sent \in [Types -> Nat] /\ DOMAIN sent = Types
      BY DEF TypeInv, TypeOK
    <3>2. CASE Item.type = UPDATED
      BY <2>1, <3>1, <3>2, Kinds, CoveredNumbers
    <3>3. CASE Item.type = DELETED
      BY <2>1, <3>1, <3>3, Kinds, CoveredNumbers
    <3>4. QED
      BY <2>2, <3>2, <3>3, Kinds
  <2>4. QED
    BY <2>1, <2>3, CoveredNumbers DEF Covered
<1>5. CASE Skip \/ Done \/ Retry
  <2>1. Len(items') = Len(items) - 1 /\ phase' \in {"idle", "match"}
    BY <1>5, GoesOnType
  <2>2. sent' = sent
    BY <1>5 DEF Skip, Done, Retry, logged
  <2>3. QED
    BY <2>1, <2>2, CoveredNumbers DEF Covered
<1>6. CASE QuotaExceeded \/ Die
  <2>1. Len(items') = 0 /\ phase' = "idle" /\ sent' = sent /\ phase # "idle"
    BY <1>6 DEF QuotaExceeded, Die, logged
  <2>2. QED
    BY <2>1, CoveredNumbers DEF Covered
<1>7. CASE Midnight
  <2>1. sent'[UPDATED] = 0 /\ sent'[DELETED] = 0 /\ UNCHANGED worker
    BY <1>7, Kinds DEF Midnight
  <2>2. QED
    BY <2>1, CoveredNumbers DEF Covered, worker
<1>8. ASSUME NEW c \in Callers, Caller(c) PROVE UNCHANGED <<worker, sent>>
  BY <1>8 DEF Caller, ReadToClose, ReadToActivate, Close, Activate, Written,
              Enriched, Backfill, Asks, Look, Drop, Create, CreateConflicts, CreateThrows, Replace,
              Raise, CallerDies, logged
<1>9. ASSUME NEW s \in Slugs, Hide(s) PROVE UNCHANGED <<worker, sent>>
  BY <1>9 DEF Hide, logged
<1>10. ASSUME NEW n \in DOMAIN queue, BecomesDue(n) PROVE UNCHANGED <<worker, sent>>
  BY <1>10 DEF BecomesDue, logged
<1>11. CASE UNCHANGED vars
  BY <1>1, <1>11 DEF vars, logged
<1>12. QED
  BY <1>1, <1>2, <1>3, <1>4, <1>5, <1>6, <1>7, <1>8, <1>9, <1>10, <1>11 DEF Next, Worker

(* What the log counts of a day never exceeds its quota: the quota covers  *)
(* what the batch has still to send, even one that goes past midnight.     *)
THEOREM QuotaIsKept == Spec => []QuotaKept
<1>1. Init => TypeInv /\ Covered
  BY TypeInvInit, CoveredInit
<1>2. TypeInv /\ Covered /\ [Next]_vars => (TypeInv /\ Covered)'
  BY TypeInvNext, CoveredNext
<1>3. TypeInv /\ Covered => QuotaKept
  <2> SUFFICES ASSUME TypeInv, Covered PROVE QuotaKept
    OBVIOUS
  <2>1. phase = "done" => Len(items) > 0
    BY CoveredNumbers
  <2>2. QED
    BY <2>1, CoveredNumbers DEF Covered, QuotaKept
<1>4. QED
  BY <1>1, <1>2, <1>3, PTL DEF Spec

----------------------------------------------------------------------------
(* The removals.                                                           *)

LEMMA NextMoves ==
  ASSUME TypeInv, [Next]_vars
  PROVE  QueueMoves /\ known \subseteq known' /\ lost \subseteq lost'
<1> USE DEF QueueMoves
<1>1. CASE UNCHANGED vars
  BY <1>1, QueueUnchanged DEF vars, logged, history
<1>2. ASSUME NEW c \in Callers, Caller(c)
      PROVE  QueueMoves /\ known \subseteq known' /\ lost \subseteq lost'
  <2>1. ASSUME NEW s \in Slugs, Starts(c, s)
        PROVE  QueueMoves /\ known \subseteq known' /\ lost \subseteq lost'
    BY <2>1, WhoAsks, AskingFields, QueueUnchanged DEF logged, history
  <2>2. CASE \/ Close(c) \/ Activate(c) \/ Look(c) \/ Drop(c) \/ CreateConflicts(c)
             \/ CreateThrows(c) \/ CallerDies(c)
    BY <2>2, QueueUnchanged DEF Close, Activate, Written, Look, Drop, CreateConflicts, CreateThrows,
       CallerDies, logged, history
  <2>3. CASE Create(c) \/ Replace(c)
    BY <2>3 DEF Create, Replace, logged, history
  <2>4. CASE Raise(c)
    BY <2>4, RaiseQueue DEF Raise, logged, history
  <2>5. QED
    BY <1>2, <2>1, <2>2, <2>3, <2>4 DEF Caller, Starts
<1>3. ASSUME NEW s \in Slugs, Hide(s)
      PROVE  QueueMoves /\ known \subseteq known' /\ lost \subseteq lost'
  BY <1>3, QueueUnchanged DEF Hide, logged, history
<1>4. CASE Worker
  <2>1. CASE Pick
    BY <2>1, PickQueue DEF Pick, logged
  <2>2. CASE Match \/ Send \/ SendFails \/ QuotaExceeded \/ Log \/ LogFails \/ Die
    BY <2>2, QueueUnchanged DEF Match, Send, SendFails, QuotaExceeded, Log, LogFails, Die,
       logged, history
  <2>3. CASE Skip \/ Done \/ Retry
    BY <2>3, GoesOnType DEF Skip, Done, Retry, logged, history
  <2>4. QED
    BY <1>4, <2>1, <2>2, <2>3 DEF Worker
<1>5. CASE Midnight \/ \E n \in DOMAIN queue : BecomesDue(n)
  BY <1>5, TimeQueue DEF Midnight, BecomesDue, logged, history
<1>6. QED
  BY <1>1, <1>2, <1>3, <1>4, <1>5 DEF Next

LEMMA KnownNext ==
  ASSUME TypeInv, RemovalsAreKnown, QueueMoves, known \subseteq known'
  PROVE  RemovalsAreKnown'
<1>1. CASE Descends
  BY <1>1 DEF RemovalsAreKnown, Descends, SameKind
<1>2. ASSUME NEW c \in Callers, step[c] = "write", ask[c].type = DELETED PROVE Slug(c) \in known
  BY <1>2 DEF TypeInv, Callings, Calling
<1>3. ASSUME NEW c \in Callers, Create(c) PROVE RemovalsAreKnown'
  <2>1. PICK new \in Rows : /\ Range(queue') = Range(queue) \cup {new}
                            /\ new.slug = Slug(c) /\ new.type = ask[c].type
    BY <1>3, CreateQueue
  <2>2. new.type = DELETED => new.slug \in known
    BY <1>2, <1>3, <2>1 DEF Create
  <2>3. QED
    BY <2>1, <2>2 DEF RemovalsAreKnown
<1>4. ASSUME NEW c \in Callers, Replace(c) PROVE RemovalsAreKnown'
  <2>1. CASE queue' = queue
    BY <2>1 DEF RemovalsAreKnown
  <2>2. CASE queue' # queue
    <3>1. PICK new \in Rows, old \in Range(queue) :
            /\ Range(queue') = (Range(queue) \ {old}) \cup {new}
            /\ new.slug = Slug(c) /\ new.type = ask[c].type
      BY <1>4, <2>2, ReplaceQueue
    <3>2. new.type = DELETED => new.slug \in known
      BY <1>2, <1>4, <3>1 DEF Replace
    <3>3. QED
      BY <3>1, <3>2 DEF RemovalsAreKnown
  <2>3. QED
    BY <2>1, <2>2
<1>5. QED
  BY <1>1, <1>3, <1>4 DEF QueueMoves

\* What Google hears of an active job, it hears before the job closes.
LEMMA AnnouncedBefore ==
  ASSUME TypeInv, [Next]_vars, NEW s \in Slugs \ active', Announced(s)'
  PROVE  Announced(s)
<1>1. CASE UNCHANGED <<worker, told>>
  BY <1>1 DEF Announced, worker, Item
<1>2. CASE Match
  <2>1. items' = items /\ told' = told /\ active' = active /\ shown' = shown
    BY <1>2 DEF Match, jobs, history
  <2>2. ~(phase' = "send" /\ Item.slug = s /\ Item.type = UPDATED)
    BY <1>2, <2>1 DEF Match, Matches, Public
  <2>3. QED
    BY <2>1, <2>2 DEF Announced, Item
<1>3. CASE Send
  <2>1. /\ phase = "send" /\ phase' = "log"
        /\ told' = [told EXCEPT ![Item.slug] = Item.type]
    BY <1>3 DEF Send
  <2>2. QED
    BY <2>1 DEF Announced, TypeInv, TypeOK
<1>4. CASE Worker /\ ~Match /\ ~Send
  <2>1. told' = told /\ phase' # "send"
    BY <1>4 DEF Worker, Pick, Skip, SendFails, QuotaExceeded, Log, LogFails, Done, Retry, Die,
                Finish, GoesOn, history
  <2>2. QED
    BY <2>1 DEF Announced
<1>5. ASSUME NEW c \in Callers, Caller(c) PROVE UNCHANGED <<worker, told>>
  BY <1>5 DEF Caller, ReadToClose, ReadToActivate, Close, Activate, Written,
              Enriched, Backfill, Asks, Look, Drop, Create, CreateConflicts, CreateThrows, Replace,
              Raise, CallerDies, history
<1>6. ASSUME NEW t \in Slugs, Hide(t) PROVE UNCHANGED <<worker, told>>
  BY <1>6 DEF Hide, history
<1>7. CASE UNCHANGED vars \/ Midnight \/ \E n \in DOMAIN queue : BecomesDue(n)
  BY <1>1, <1>7 DEF vars, Midnight, BecomesDue, history
<1>8. QED
  BY <1>1, <1>2, <1>3, <1>4, <1>5, <1>6, <1>7 DEF Next

\* Its row stays and so does whoever is about to write it.
LEMMA PendingKept ==
  ASSUME NEW s, Pending(s),
         \A t \in Range(queue) : t.slug = s /\ t.type = DELETED => Stays(t),
         \A c \in Callers : Works(c, s) => Works(c, s)'
  PROVE  Pending(s)'
BY DEF Pending, Stays, SameKind

LEMMA WorksKept ==
  ASSUME NEW s, NEW c \in Callers,
         step'[c] = step[c], ask'[c] = ask[c], copy'[c] = copy[c], Works(c, s)
  PROVE  Works(c, s)'
BY DEF Works, Slug

LEMMA PendingWithQueue ==
  ASSUME TypeInv, NEW s, Pending(s), UNCHANGED caller,
         \A t \in Range(queue) : t.slug = s /\ t.type = DELETED => Stays(t)
  PROVE  Pending(s)'
BY WorksKept, PendingKept DEF caller

LEMMA AskingPends ==
  ASSUME TypeInv, NEW s, Pending(s), NEW c \in Callers, NEW t \in Slugs, Asking(c, t)
  PROVE  Pending(s)'
<1>1. \A r \in Range(queue) : Stays(r)
  BY AskingFields, QueueUnchanged
<1>2. ASSUME NEW d \in Callers, Works(d, s) PROVE Works(d, s)'
  <2>1. d # c
    BY <1>2, AskingFields DEF Works, Enqueueing
  <2>2. QED
    BY <1>2, <2>1, AskingFields, WorksKept
<1>3. QED
  BY <1>1, <1>2, PendingKept

\* Who has only read the job promises nothing yet.
LEMMA WrittenPends ==
  ASSUME TypeInv, NEW s, Pending(s), NEW c \in Callers, step[c] \in Reading, Written(c)
  PROVE  Pending(s)'
<1>1. \A r \in Range(queue) : Stays(r)
  BY WrittenFields, QueueUnchanged
<1>2. ASSUME NEW d \in Callers, Works(d, s) PROVE Works(d, s)'
  <2>1. d # c
    BY <1>2 DEF Works, Reading, Enqueueing
  <2>2. QED
    BY <1>2, <2>1, WrittenFields, WorksKept
<1>3. QED
  BY <1>1, <1>2, PendingKept

LEMMA LookPends ==
  ASSUME TypeInv, NEW s, Pending(s), NEW c \in Callers, Look(c)
  PROVE  Pending(s)'
<1>1. /\ queue' = queue /\ ask' = ask /\ step' = [step EXCEPT ![c] = "write"]
  BY DEF Look
<1>2. PICK row \in RowsOf(Slug(c)) \cup {NoRow} : copy' = [copy EXCEPT ![c] = row]
  BY DEF Look
<1>3. /\ step'[c] = "write" /\ copy'[c] = row
      /\ \A d \in Callers : d # c => step'[d] = step[d] /\ copy'[d] = copy[d]
  BY <1>1, <1>2 DEF TypeInv, TypeOK
<1>4. CASE Works(c, s) /\ ~Works(c, s)'
  <2>1. row # NoRow /\ row.type # UPDATED
    BY <1>1, <1>3, <1>4 DEF Works, Slug, Enqueueing
  <2>2. row \in Range(queue) /\ row.slug = s
    BY <1>2, <1>4, <2>1 DEF RowsOf, Works
  <2>3. row.type = DELETED
    BY <2>1, <2>2, QueueType, Kinds DEF Rows
  <2>4. QED
    BY <1>1, <2>2, <2>3 DEF Pending
<1>5. CASE ~Works(c, s) \/ Works(c, s)'
  <2>1. \A d \in Callers : Works(d, s) => Works(d, s)'
    BY <1>1, <1>3, <1>5, WorksKept
  <2>2. QED
    BY <1>1, <2>1, QueueUnchanged, PendingKept
<1>6. QED
  BY <1>4, <1>5

\* Where a caller is done, the others go on.
LEMMA OthersWork ==
  ASSUME TypeInv, NEW s, NEW c \in Callers, Finished(c), ~Works(c, s), Pending(s),
         \A t \in Range(queue) : t.slug = s /\ t.type = DELETED => Stays(t)
  PROVE  Pending(s)'
BY FinishedFields, WorksKept, PendingKept

LEMMA CreatePends ==
  ASSUME TypeInv, NEW s, Pending(s), NEW c \in Callers, Create(c)
  PROVE  Pending(s)'
<1>1. PICK new \in Rows : /\ Range(queue') = Range(queue) \cup {new}
                          /\ new.slug = Slug(c) /\ new.type = ask[c].type
  BY CreateQueue
<1>2. CASE Works(c, s)
  BY <1>1, <1>2 DEF Pending, Works
<1>3. CASE ~Works(c, s)
  <2>1. \A t \in Range(queue) : Stays(t)
    BY <1>1 DEF Stays, SameKind
  <2>2. Finished(c)
    BY DEF Create
  <2>3. QED
    BY <1>3, <2>1, <2>2, OthersWork
<1>4. QED
  BY <1>2, <1>3

LEMMA CreateConflictsPends ==
  ASSUME TypeInv, NEW s, Pending(s), NEW c \in Callers, CreateConflicts(c)
  PROVE  Pending(s)'
<1>1. /\ queue' = queue /\ ask' = ask /\ copy' = copy /\ step'[c] = "look"
      /\ \A d \in Callers : d # c => step'[d] = step[d]
  BY DEF CreateConflicts, TypeInv, TypeOK
<1>2. \A d \in Callers : Works(d, s) => Works(d, s)'
  BY <1>1 DEF Works, Slug, Enqueueing
<1>3. QED
  BY <1>1, <1>2, QueueUnchanged, PendingKept

LEMMA AnnouncedIsHeard == ASSUME TypeInv, NEW s, Announced(s) PROVE Heard(s)
BY DEF TypeInv, Batch, Announced, Heard, InFlight, InHand, Item

\* A removal dropped while Google has the page, or is about to, is lost, and
\* so is the one a caller takes with it.
LEMMA DropPends ==
  ASSUME TypeInv, NEW s, Pending(s), Announced(s), s \notin lost',
         NEW c \in Callers, Drop(c) \/ CreateThrows(c) \/ CallerDies(c)
  PROVE  Pending(s)'
<1>1. Finished(c) /\ queue' = queue
  BY DEF Drop, CreateThrows, CallerDies
<1>2. ~Works(c, s)
  <2>1. CASE Drop(c)
    BY <2>1, AnnouncedIsHeard DEF Drop, Works
  <2>2. CASE CreateThrows(c) \/ CallerDies(c)
    BY <2>2 DEF CreateThrows, CallerDies, Works
  <2>3. QED
    BY <2>1, <2>2
<1>3. QED
  BY <1>1, <1>2, QueueUnchanged, OthersWork

LEMMA ReplacePends ==
  ASSUME TypeInv, NEW s, Pending(s), s \notin lost', s \notin active,
         NEW c \in Callers, Replace(c)
  PROVE  Pending(s)'
<1>1. Finished(c) /\ ask[c].type \in Types
  BY SlugType DEF Replace
<1>2. CASE queue' = queue /\ WithId(copy[c].id) = {}
  <2>1. ~Works(c, s)
    BY <1>2 DEF Replace, Works
  <2>2. QED
    BY <1>1, <1>2, <2>1, QueueUnchanged, OthersWork
<1>3. ASSUME NEW new \in Rows, NEW old \in Range(queue),
             Range(queue') = (Range(queue) \ {old}) \cup {new},
             new.slug = Slug(c), old.slug = Slug(c), new.type = ask[c].type,
             WithId(copy[c].id) # {}
      PROVE  Pending(s)'
  <2>1. CASE Slug(c) = s
    <3>1. ask[c].type # UPDATED
      BY <1>3, <2>1 DEF Replace
    <3>2. new.slug = s /\ new.type = DELETED
      BY <1>1, <1>3, <2>1, <3>1, Kinds
    <3>3. QED
      BY <1>3, <3>2 DEF Pending
  <2>2. CASE Slug(c) # s
    <3>1. \A t \in Range(queue) : t.slug = s => Stays(t)
      BY <1>3, <2>2 DEF Stays, SameKind
    <3>2. ~Works(c, s)
      BY <2>2 DEF Works
    <3>3. QED
      BY <1>1, <3>1, <3>2, OthersWork
  <2>3. QED
    BY <2>1, <2>2
<1>4. QED
  BY <1>2, <1>3, ReplaceQueue

LEMMA RaisePends ==
  ASSUME TypeInv, NEW s, Pending(s), NEW c \in Callers, Raise(c)
  PROVE  Pending(s)'
<1>1. Finished(c) /\ ~Works(c, s)
  BY Kinds DEF Raise, Turns, Works
<1>2. QED
  BY <1>1, RaiseQueue, OthersWork

\* The worker removes a row once Google heard of it, or the removal is lost.
LEMMA WorkerPends ==
  ASSUME TypeInv, RemovalsAreKnown, NEW s, Pending(s), Announced(s), s \notin lost', s \notin active,
         Worker
  PROVE  Pending(s)'
<1>0. UNCHANGED caller
  BY DEF Worker, Pick, Match, Skip, Send, SendFails, QuotaExceeded, Log, LogFails, Done, Retry, Die
<1>1. CASE queue' = queue
  BY <1>0, <1>1, QueueUnchanged, PendingWithQueue
<1>2. CASE Pick
  <2>1. \A t \in Range(queue) : t.slug = s => ~TooOld(t)
    BY <1>2 DEF Pick
  <2>2. QED
    BY <1>0, <1>2, <2>1, PickQueue, PendingWithQueue
<1>3. CASE Skip \/ Done \/ Retry
  <2>1. \A t \in Range(queue) : ~Unchanged(t) => Stays(t)
    BY <1>3, GoesOnType
  <2>2. ASSUME NEW t \in Range(queue), t.slug = s, t.type = DELETED, Unchanged(t)
        PROVE  Stays(t)
    <3>1. phase # "idle"
      BY <1>3 DEF Skip, Done, Retry
    <3>2. Item.type = DELETED /\ Item.slug = s
      <4>1. Item \in Range(items)
        BY <3>1, ItemType
      <4>2. Remembers(Item.id, Item.slug)
        BY <4>1 DEF TypeInv, Batch
      <4>3. QED
        BY <2>2, <4>2 DEF Unchanged, Remembers
    <3>3. CASE Skip
      <4>1. s \in known
        BY <2>2 DEF RemovalsAreKnown
      <4>2. Matches(Item)
        BY <3>2, <4>1, Kinds DEF Matches
      <4>3. QED
        BY <3>2, <3>3, <4>2 DEF Skip
    <3>4. CASE Done
      <4>1. phase = "done" /\ told[s] = DELETED
        BY <3>2, <3>4 DEF Done, TypeInv, Batch
      <4>2. QED
        BY <4>1, Kinds DEF Announced
    <3>5. CASE Retry
      <4>1. ~GivesUp(Item.attempts + 1)
        BY <3>2, <3>5 DEF Retry
      <4>2. QED
        BY <3>5, <4>1, RetryQueue
    <3>6. QED
      BY <1>3, <3>3, <3>4, <3>5
  <2>3. QED
    BY <1>0, <2>1, <2>2, PendingWithQueue
<1>4. CASE Match \/ Send \/ SendFails \/ QuotaExceeded \/ Log \/ LogFails \/ Die
  BY <1>1, <1>4 DEF Match, Send, SendFails, QuotaExceeded, Log, LogFails, Die
<1>5. QED
  BY <1>2, <1>3, <1>4 DEF Worker

LEMMA RemovalsPendNext ==
  ASSUME TypeInv, RemovalsAreKnown, RemovalsPend, [Next]_vars
  PROVE  RemovalsPend'
<1> SUFFICES ASSUME NEW s \in Slugs, s \notin active', s \notin lost', Announced(s)'
             PROVE  Pending(s)'
  BY DEF RemovalsPend
<1>0. Announced(s) /\ s \notin lost
  BY AnnouncedBefore, NextMoves
<1>1. s \notin active => Pending(s)
  BY <1>0 DEF RemovalsPend
<1>2. ASSUME NEW c \in Callers, Close(c) \/ Activate(c) PROVE Pending(s)'
  <2>1. step[c] \in Reading /\ Written(c)
    BY <1>2 DEF Close, Activate
  <2>2. CASE s \notin active
    BY <1>1, <2>1, <2>2, WrittenPends
  <2>3. CASE s \in active
    <3>1. Close(c) /\ Slug(c) = s
      BY <1>2, <2>3 DEF Close, Activate
    <3>2. step[c] = "change"
      BY <1>0, <2>1, <2>3, <3>1, AnnouncedIsHeard DEF Close, Reading
    <3>3. step'[c] = "look" /\ ask'[c] = ask[c] /\ copy'[c] = NoRow
      BY <2>1, <3>2, WrittenFields
    <3>4. QED
      BY <3>1, <3>3 DEF Close, Pending, Works, Slug, Enqueueing
  <2>4. QED
    BY <2>2, <2>3
<1>3. ASSUME ~ \E c \in Callers : Close(c) \/ Activate(c)
      PROVE  Pending(s)'
  <2>1. active' = active
    BY <1>3 DEF Next, Caller, ReadToClose, ReadToActivate, Enriched, Backfill, Look, Drop, Create,
       CreateConflicts, CreateThrows, Replace, Raise, CallerDies, Hide, Worker, Pick, Match, Skip,
       Send, SendFails, QuotaExceeded, Log, LogFails, Done, Retry, Die, BecomesDue, Midnight, vars,
       jobs
  <2>2. s \notin active /\ Pending(s)
    BY <1>1, <2>1
  <2>3. ASSUME NEW c \in Callers, NEW t \in Slugs, Starts(c, t) PROVE Pending(s)'
    BY <2>2, <2>3, WhoAsks, AskingPends
  <2>4. ASSUME NEW c \in Callers,
               \/ Look(c) \/ Drop(c) \/ Create(c) \/ CreateConflicts(c) \/ CreateThrows(c)
               \/ Replace(c) \/ Raise(c) \/ CallerDies(c)
        PROVE  Pending(s)'
    BY <1>0, <2>2, <2>4, LookPends, DropPends, CreatePends, CreateConflictsPends, ReplacePends,
       RaisePends
  <2>5. ASSUME NEW t \in Slugs, Hide(t) PROVE Pending(s)'
    BY <2>2, <2>5, QueueUnchanged, PendingWithQueue DEF Hide
  <2>6. CASE Worker
    BY <1>0, <2>2, <2>6, WorkerPends
  <2>7. CASE Midnight \/ \E n \in DOMAIN queue : BecomesDue(n)
    BY <2>2, <2>7, TimeQueue, PendingWithQueue DEF Midnight, BecomesDue
  <2>8. CASE UNCHANGED vars
    BY <2>2, <2>8, QueueUnchanged, PendingWithQueue DEF vars
  <2>10. QED
    BY <1>3, <2>4, <2>5, <2>6, <2>7, <2>8, <2>3 DEF Next, Caller, Starts
<1>4. QED
  BY <1>2, <1>3

(* When nobody has anything left to do for a job that closed, Google was   *)
(* told of its removal, unless it got lost in one of the named ways: the   *)
(* removal is queued or somebody is about to queue it as long as Google    *)
(* has the page, or is about to get it.                                    *)
THEOREM ClosedJobsAreForgotten == Spec => []ClosedIsForgotten
<1>1. Init => TypeInv /\ RemovalsAreKnown /\ RemovalsPend
  <2> SUFFICES ASSUME Init PROVE RemovalsAreKnown /\ RemovalsPend
    BY TypeInvInit
  <2>1. Range(queue) = {} /\ active = Slugs
    BY DEF Init, Range
  <2>2. QED
    BY <2>1 DEF RemovalsAreKnown, RemovalsPend
<1>2. /\ TypeInv /\ RemovalsAreKnown /\ RemovalsPend /\ [Next]_vars
      => (TypeInv /\ RemovalsAreKnown /\ RemovalsPend)'
  BY TypeInvNext, NextMoves, KnownNext, RemovalsPendNext
<1>3. TypeInv /\ RemovalsPend => ClosedIsForgotten
  <2> SUFFICES ASSUME TypeInv, RemovalsPend, NEW s \in Slugs \ (active \cup lost), Settled(s),
                      told[s] = UPDATED
               PROVE  FALSE
    BY DEF ClosedIsForgotten
  <2>1. Pending(s)
    BY DEF RemovalsPend, Announced
  <2>2. \A c \in Callers : ~Works(c, s)
    <3>1. ASSUME NEW c \in Callers, Works(c, s) PROVE FALSE
      <4>1. ask[c] \in Asked /\ Slug(c) = s
        BY <3>1, SlugType DEF Works, Enqueueing
      <4>2. QED
        BY <4>1, Constants DEF Settled
    <3>2. QED
      BY <3>1
  <2>3. QED
    BY <2>1, <2>2 DEF Pending, Settled, RowsOf
<1>4. QED
  BY <1>1, <1>2, <1>3, PTL DEF Spec

----------------------------------------------------------------------------
(* Removals go out before they expire.  The worker sends them in the order *)
(* they were queued, and the floor brings out a day's worth of them every  *)
(* day, however many new jobs come.                                        *)

\* What the floor brings out in a day.
DayOfRemovals == Lesser(Floor, DailyLimit)

\* Ids of the removals that wait, and of those before the n-th row of q.
Waiting == {r.id : r \in {r \in Range(queue) : r.type = DELETED}}
AheadOf(q, n) == {q[m].id : m \in {m \in DOMAIN q : m < n /\ q[m].type = DELETED}}

\* Ids of the batch, and the one that was sent, logged and not finished.
Picked(t) == {items[k].id : k \in {k \in DOMAIN items : items[k].type = t}}
InLog(t) == IF phase = "done" /\ Item.type = t THEN {Item.id} ELSE {}

\* What goes out before the n-th row.
ToCome(n) == (AheadOf(queue, n) \cup Picked(DELETED)) \ InLog(DELETED)

\* Updates that may still be sent today.
ToSend == Picked(UPDATED) \ InLog(UPDATED)

\* A removal that has seen a midnight.
Aged(r) == r.type = DELETED /\ r.age >= 1

\* Every row may go, and removals go in the order of their creation.
Prompt(q) == \A r \in Range(q) : r.due /\ (r.type = DELETED => r.priority = DeletedFirst)

\* Who closes a job asks for its removal with the first priority.
AsksInOrder == \A c \in Callers :
  step[c] # "idle" /\ ask[c].type = DELETED => ask[c].priority = DeletedFirst

\* What holds as long as nothing fails.
Smooth ==
  Prompt(queue) /\ Apart(items) /\ phase # "retry" /\ ~expired /\ AsksInOrder

\* A removal that has seen `age' midnights has to wait for fewer removals than
\* the days it has left bring out.
OutInTime == \A n \in DOMAIN queue :
  Aged(queue[n]) /\ queue[n].id \notin Picked(DELETED) =>
    Cardinality(ToCome(n)) + sent[DELETED] < (TTL - queue[n].age) * DayOfRemovals

\* As long as one of them waits, the updates leave the floor alone.
FloorIsKept ==
  (\E n \in DOMAIN queue : Aged(queue[n])) =>
    sent[UPDATED] + Cardinality(ToSend) + DayOfRemovals <= DailyLimit

OutInv == mishaps = 0 => Smooth /\ OutInTime /\ FloorIsKept

\* The hypotheses.
BacklogFits == Cardinality(Waiting) <= (TTL - 1) * DayOfRemovals

\* What a caller raises is of the type it read.
RaisesInTime ==
  \A c \in Callers : Raise(c) => \A r \in WithId(copy[c].id) : r.type = copy[c].type

(* The order of the rows.                                                  *)

LEMMA BelowOrder ==
  ASSUME NEW l \in Nat, NEW K \in SUBSET (1..l), NEW m \in K, NEW n \in K
  PROVE  m <= n <=> Below(K, m) <= Below(K, n)
<1> /\ m \in Nat /\ n \in Nat /\ \A k \in K : k \in Nat
  OBVIOUS
<1>1. ASSUME NEW i \in K, NEW j \in K, i <= j PROVE Below(K, i) <= Below(K, j)
  <2>1. {k \in K : k <= i} \subseteq {k \in K : k <= j}
    <3>1. i \in Nat /\ j \in Nat /\ \A k \in K : k \in Nat
      OBVIOUS
    <3>2. \A k \in K : k <= i => k <= j
      BY <1>1, <3>1
    <3>3. QED
      BY ONLY <3>2
  <2>2. IsFiniteSet({k \in K : k <= j})
    BY BelowGrows, FS_Subset
  <2>3. QED
    BY <2>1, <2>2, FS_Subset DEF Below
<1>2. /\ Below(K, m) \in Nat /\ Below(K, n) \in Nat
      /\ Below(K, m) = Below(K, n) => m = n
  <2>1. /\ Cardinality(K) \in Nat
        /\ \A i \in K : Below(K, i) \in 1..Cardinality(K)
        /\ \A i, j \in K : Below(K, i) = Below(K, j) => i = j
    BY BelowGrows
  <2>2. QED
    BY <2>1
<1>3. CASE m <= n
  BY <1>1, <1>3
<1>4. CASE n < m
  BY <1>1, <1>2, <1>4
<1>5. QED
  BY <1>3, <1>4

LEMMA KeptOrder ==
  ASSUME NEW D, NEW q \in Seq(D), NEW S,
         NEW i \in DOMAIN Kept(q, S), NEW j \in DOMAIN Kept(q, S)
  PROVE  /\ Nth(Places(q, S), i) \in DOMAIN q /\ Kept(q, S)[i] = q[Nth(Places(q, S), i)]
         /\ i <= j <=> Nth(Places(q, S), i) <= Nth(Places(q, S), j)
<1> DEFINE K == Places(q, S)
<1>1. K \in SUBSET (1..Len(q)) /\ Len(q) \in Nat /\ K \subseteq DOMAIN q
  BY DEF Places
<1>2. \A k \in DOMAIN Kept(q, S) :
        Nth(K, k) \in K /\ Kept(q, S)[k] = q[Nth(K, k)] /\ Below(K, Nth(K, k)) = k
  BY KeptPlaces
<1> HIDE DEF K
<1>3. Nth(K, i) <= Nth(K, j) <=> Below(K, Nth(K, i)) <= Below(K, Nth(K, j))
  BY <1>1, <1>2, BelowOrder
<1>4. QED
  BY <1>1, <1>2, <1>3 DEF K

LEMMA KeptAll ==
  ASSUME NEW D, NEW q \in Seq(D), NEW S, Range(q) \subseteq S
  PROVE  Kept(q, S) = q
<1> DEFINE K == Places(q, S)
<1>1. K = 1..Len(q) /\ Len(q) \in Nat
  BY DEF Places, Range
<1>2. /\ Len(Kept(q, S)) = Cardinality(K) /\ Kept(q, S) \in Seq(D)
      /\ \A k \in DOMAIN Kept(q, S) :
           Nth(K, k) \in K /\ Kept(q, S)[k] = q[Nth(K, k)] /\ Below(K, Nth(K, k)) = k
  BY KeptPlaces
<1> HIDE DEF K
<1>3. Cardinality(K) = Len(q)
  BY <1>1, FS_Interval
<1>4. ASSUME NEW m \in K PROVE Below(K, m) = m
  <2>1. {k \in K : k <= m} = 1..m /\ m \in Nat
    BY <1>1
  <2>2. Cardinality(1..m) = m
    BY <2>1, FS_Interval
  <2>3. QED
    BY <2>1, <2>2 DEF Below
<1>5. \A k \in DOMAIN Kept(q, S) : Kept(q, S)[k] = q[k]
  BY <1>2, <1>4
<1> DEFINE p == Kept(q, S)
<1>6. p \in Seq(D) /\ Len(p) = Len(q) /\ \A k \in DOMAIN p : p[k] = q[k]
  BY <1>2, <1>3, <1>5
<1> HIDE DEF p
<1>7. p = q
  BY <1>6
<1>8. QED
  BY <1>7 DEF p

\* What q keeps of the removals of p that have seen a midnight is in their order.
Orderly(p, q) == \A m \in DOMAIN q : Aged(q[m]) =>
  \E n \in DOMAIN p : /\ p[n].id = q[m].id /\ p[n].type = q[m].type /\ p[n].age = q[m].age
                      /\ AheadOf(q, m) \subseteq AheadOf(p, n)

LEMMA OrderlyKept ==
  ASSUME NEW q \in Seq(Rows), NEW S
  PROVE  Orderly(q, Kept(q, S))
<1> DEFINE p == Kept(q, S)
           at(i) == Nth(Places(q, S), i)
<1>1. \A i, j \in DOMAIN p : at(i) \in DOMAIN q /\ p[i] = q[at(i)] /\ (i <= j <=> at(i) <= at(j))
  BY KeptOrder
<1>2. \A i \in DOMAIN p : i \in Nat
  BY KeptPlaces
<1>3. \A n \in DOMAIN q : n \in Nat
  OBVIOUS
<1> HIDE DEF p, at
<1>4. ASSUME NEW i \in DOMAIN p PROVE AheadOf(p, i) \subseteq AheadOf(q, at(i))
  <2> SUFFICES ASSUME NEW j \in DOMAIN p, j < i, p[j].type = DELETED
               PROVE  p[j].id \in AheadOf(q, at(i))
    BY DEF AheadOf
  <2>1. at(j) \in DOMAIN q /\ at(j) < at(i) /\ q[at(j)] = p[j]
    BY <1>1, <1>2, <1>3
  <2>2. QED
    BY <2>1 DEF AheadOf
<1>5. QED
  BY <1>1, <1>4 DEF Orderly, p

LEMMA OrderlySame ==
  ASSUME NEW p \in Seq(Rows), NEW q, DOMAIN q = DOMAIN p,
         \A n \in DOMAIN p : q[n].id = p[n].id /\ q[n].type = p[n].type /\ q[n].age = p[n].age
  PROVE  Orderly(p, q)
BY DEF Orderly, AheadOf

LEMMA OrderlyAppend ==
  ASSUME NEW p \in Seq(Rows), NEW q \in Seq(Rows), Orderly(p, q), NEW r \in Rows, r.age = 0
  PROVE  Orderly(p, Append(q, r))
<1> DEFINE z == Append(q, r)
<1>1. /\ DOMAIN z = 1..(Len(q) + 1) /\ DOMAIN q = 1..Len(q) /\ Len(q) \in Nat
      /\ \A n \in 1..Len(q) : z[n] = q[n]
      /\ z[Len(q) + 1] = r
  OBVIOUS
<1> HIDE DEF z
<1>2. ~Aged(r)
  BY DEF Aged
<1>3. ASSUME NEW m \in DOMAIN z, Aged(z[m])
      PROVE  m \in DOMAIN q /\ z[m] = q[m] /\ AheadOf(z, m) = AheadOf(q, m)
  <2>1. m \in 1..Len(q) /\ z[m] = q[m]
    BY <1>1, <1>2, <1>3
  <2>2. \A n \in DOMAIN z : n < m => n \in DOMAIN q /\ z[n] = q[n]
    BY <1>1, <2>1
  <2>3. \A n \in DOMAIN q : n \in DOMAIN z /\ z[n] = q[n]
    BY <1>1
  <2>4. AheadOf(z, m) = AheadOf(q, m)
    BY <2>2, <2>3 DEF AheadOf
  <2>5. QED
    BY <1>1, <2>1, <2>4
<1>4. QED
  BY <1>3 DEF Orderly, z

----------------------------------------------------------------------------
(* The batch.                                                              *)

Due(q, t, P) == Kept(q, {r \in Range(q) : r.due /\ r.type = t /\ r.priority \in P})
BatchSize == Lesser(PerRun, RemainingToday)
Budget(q) == NotNegative(RemainingToday - Reserve(q))
NewOf(q) == First(Lesser(BatchSize, Budget(q)),
                  Due(q, UPDATED, {DeletedFirst}) \o Due(q, UPDATED, {NewJob}))
RemovalsOf(q) == First(BatchSize - Len(NewOf(q)),
  Due(q, DELETED, {DeletedFirst}) \o Due(q, DELETED, {NewJob}) \o Due(q, DELETED, {Backfilled}))
BackfillOf(q) == First(Lesser(BatchSize - Len(NewOf(q)) - Len(RemovalsOf(q)), Budget(q) - Len(NewOf(q))),
                       Due(q, UPDATED, {Backfilled}))

LEMMA BatchParts ==
  ASSUME NEW q
  PROVE  PickBatch(q) = NewOf(q) \o RemovalsOf(q) \o BackfillOf(q)
BY DEF PickBatch, NewOf, RemovalsOf, BackfillOf, Due, BatchSize, Budget

LEMMA BatchNumbers ==
  ASSUME TypeOK, NEW q
  PROVE  /\ RemainingToday \in Int /\ Reserve(q) \in Nat /\ Budget(q) \in Nat /\ BatchSize \in Int
         /\ sent[UPDATED] \in Nat /\ sent[DELETED] \in Nat
         /\ BatchSize <= 0 => RemainingToday <= 0
         /\ RemainingToday = DailyLimit - sent[UPDATED] - sent[DELETED]
<1>1. sent[UPDATED] \in Nat /\ sent[DELETED] \in Nat
  BY Kinds DEF TypeOK
<1>2. RemainingToday \in Int /\ Reserve(q) \in Nat
  BY <1>1, Constants DEF RemainingToday, Reserve, NotNegative
<1>3. QED
  BY <1>1, <1>2, Constants DEF RemainingToday, Budget, BatchSize, NotNegative, Lesser

LEMMA DueRows ==
  ASSUME NEW q \in Seq(Rows), Apart(q), NEW t, NEW P
  PROVE  /\ Due(q, t, P) \in Seq(Rows) /\ Apart(Due(q, t, P))
         /\ Range(Due(q, t, P)) = {r \in Range(q) : r.due /\ r.type = t /\ r.priority \in P}
<1> DEFINE S == {r \in Range(q) : r.due /\ r.type = t /\ r.priority \in P}
<1>1. Due(q, t, P) = Kept(q, S)
  BY DEF Due
<1>2. Range(q) \cap S = S
  OBVIOUS
<1> HIDE DEF S
<1>3. Kept(q, S) \in Seq(Rows) /\ Apart(Kept(q, S)) /\ Range(Kept(q, S)) = S
  BY <1>2, KeptRows, KeptApart
<1>4. QED
  BY <1>1, <1>3 DEF S

\* Rows of q that are not the same one.
LEMMA CatApart ==
  ASSUME NEW q, Apart(q), NEW p1 \in Seq(Rows), NEW p2 \in Seq(Rows), Apart(p1), Apart(p2),
         Range(p1) \cup Range(p2) \subseteq Range(q), Range(p1) \cap Range(p2) = {}
  PROVE  /\ p1 \o p2 \in Seq(Rows) /\ Apart(p1 \o p2)
         /\ Range(p1 \o p2) = Range(p1) \cup Range(p2)
         /\ Len(p1 \o p2) = Len(p1) + Len(p2)
<1> DEFINE z == p1 \o p2
<1>1. /\ z \in Seq(Rows) /\ Len(z) = Len(p1) + Len(p2) /\ Len(p1) \in Nat /\ Len(p2) \in Nat
      /\ DOMAIN z = 1..(Len(p1) + Len(p2)) /\ DOMAIN p1 = 1..Len(p1) /\ DOMAIN p2 = 1..Len(p2)
      /\ \A n \in DOMAIN p1 : z[n] = p1[n]
      /\ \A n \in DOMAIN z \ DOMAIN p1 : n - Len(p1) \in DOMAIN p2 /\ z[n] = p2[n - Len(p1)]
      /\ \A n \in DOMAIN p2 : n + Len(p1) \in DOMAIN z /\ z[n + Len(p1)] = p2[n]
  OBVIOUS
<1>2. DOMAIN p1 \subseteq DOMAIN z
  BY <1>1
<1> HIDE DEF z
<1>3. Range(z) = Range(p1) \cup Range(p2)
  <2>1. Range(z) \subseteq Range(p1) \cup Range(p2)
    BY <1>1 DEF Range
  <2>2. Range(p1) \subseteq Range(z)
    BY <1>1, <1>2 DEF Range
  <2>3. Range(p2) \subseteq Range(z)
    BY <1>1 DEF Range
  <2>4. QED
    BY <2>1, <2>2, <2>3
<1>4. \A r \in Range(p1), t \in Range(p2) : r.slug # t.slug /\ r.id # t.id
  BY ApartRows
<1>5. Apart(z)
  <2> SUFFICES ASSUME NEW m \in DOMAIN z, NEW n \in DOMAIN z,
                      z[m].slug = z[n].slug \/ z[m].id = z[n].id
               PROVE  m = n
    BY DEF Apart
  <2>1. CASE m \in DOMAIN p1 /\ n \in DOMAIN p1
    BY <1>1, <2>1 DEF Apart
  <2>2. CASE m \notin DOMAIN p1 /\ n \notin DOMAIN p1
    <3>1. m - Len(p1) = n - Len(p1)
      BY <1>1, <2>2 DEF Apart
    <3>2. m \in Nat /\ n \in Nat
      BY <1>1
    <3>3. QED
      BY <1>1, <3>1, <3>2
  <2>3. CASE m \in DOMAIN p1 /\ n \notin DOMAIN p1
    <3>1. z[m] \in Range(p1) /\ z[n] \in Range(p2)
      BY <1>1, <2>3 DEF Range
    <3>2. QED
      BY <1>4, <3>1
  <2>4. CASE m \notin DOMAIN p1 /\ n \in DOMAIN p1
    <3>1. z[m] \in Range(p2) /\ z[n] \in Range(p1)
      BY <1>1, <2>4 DEF Range
    <3>2. QED
      BY <1>4, <3>1
  <2>5. QED
    BY <2>1, <2>2, <2>3, <2>4
<1>6. QED
  BY <1>1, <1>3, <1>5 DEF z

LEMMA FirstApart ==
  ASSUME NEW q \in Seq(Rows), Apart(q), NEW n \in Int
  PROVE  /\ Apart(First(n, q)) /\ DOMAIN First(n, q) = 1..Lesser(NotNegative(n), Len(q))
         /\ \A i \in DOMAIN First(n, q) : i \in DOMAIN q /\ First(n, q)[i] = q[i]
<1> DEFINE m == Lesser(NotNegative(n), Len(q))
<1>1. m \in Nat /\ m <= Len(q) /\ Len(q) \in Nat /\ DOMAIN q = 1..Len(q)
  BY DEF Lesser, NotNegative
<1>2. First(n, q) = SubSeq(q, 1, m)
  BY DEF First
<1> HIDE DEF m
<1>3. SubSeq(q, 1, m) = [i \in 1..m |-> q[i]]
  BY <1>1
<1>4. /\ DOMAIN First(n, q) = 1..m
      /\ \A i \in 1..m : i \in DOMAIN q /\ First(n, q)[i] = q[i]
  BY <1>1, <1>2, <1>3
<1>5. Apart(First(n, q))
  BY <1>4 DEF Apart
<1>6. QED
  BY <1>4, <1>5 DEF m

OfType(R, t) == {r \in R : r.type = t}

LEMMA NewRows ==
  ASSUME TypeOK, NEW q \in Seq(Rows), Apart(q)
  PROVE  /\ NewOf(q) \in Seq(Rows) /\ Apart(NewOf(q)) /\ Len(NewOf(q)) \in Nat
         /\ Len(NewOf(q)) <= Budget(q)
         /\ Range(NewOf(q)) \subseteq {r \in Range(q) : r.type = UPDATED /\ r.priority # Backfilled}
<1> DEFINE p1 == Due(q, UPDATED, {DeletedFirst})
           p2 == Due(q, UPDATED, {NewJob})
           k == Lesser(BatchSize, Budget(q))
<1>1. /\ p1 \in Seq(Rows) /\ Apart(p1) /\ p2 \in Seq(Rows) /\ Apart(p2)
      /\ Range(p1) = {r \in Range(q) : r.due /\ r.type = UPDATED /\ r.priority \in {DeletedFirst}}
      /\ Range(p2) = {r \in Range(q) : r.due /\ r.type = UPDATED /\ r.priority \in {NewJob}}
  BY DueRows
<1>2. DeletedFirst # NewJob /\ DeletedFirst # Backfilled /\ NewJob # Backfilled
  BY DEF DeletedFirst, NewJob, Backfilled
<1>3. NewOf(q) = First(k, p1 \o p2)
  BY DEF NewOf
<1>4. k \in Int /\ k <= Budget(q) /\ Budget(q) \in Nat
  BY BatchNumbers DEF Lesser
<1> HIDE DEF p1, p2, k
<1>5. Range(p1) \cup Range(p2) \subseteq Range(q) /\ Range(p1) \cap Range(p2) = {}
  BY <1>1, <1>2
<1> DEFINE p == p1 \o p2
<1>6. p \in Seq(Rows) /\ Apart(p) /\ Range(p) = Range(p1) \cup Range(p2)
  BY <1>1, <1>5, CatApart
<1>7. NewOf(q) = First(k, p)
  BY <1>3
<1> HIDE DEF p
<1>8. /\ First(k, p) \in Seq(Rows) /\ Range(First(k, p)) \subseteq Range(p)
      /\ Len(First(k, p)) = Lesser(NotNegative(k), Len(p)) /\ Len(First(k, p)) \in Nat
      /\ Apart(First(k, p)) /\ Len(p) \in Nat
  <2>1. /\ First(k, p) \in Seq(Rows) /\ Range(First(k, p)) \subseteq Range(p)
        /\ Len(First(k, p)) = Lesser(NotNegative(k), Len(p)) /\ Len(First(k, p)) \in Nat
    BY <1>4, <1>6, FirstRows
  <2>2. Apart(First(k, p))
    BY <1>4, <1>6, FirstApart
  <2>3. QED
    BY <1>6, <2>1, <2>2
<1>9. Len(First(k, p)) <= Budget(q)
  BY <1>4, <1>8 DEF Lesser, NotNegative
<1>10. Range(p) \subseteq {r \in Range(q) : r.type = UPDATED /\ r.priority # Backfilled}
  BY <1>1, <1>2, <1>6
<1>11. QED
  BY <1>7, <1>8, <1>9, <1>10

\* The due removals, by priority.
DueRemovals(q) ==
  Due(q, DELETED, {DeletedFirst}) \o Due(q, DELETED, {NewJob}) \o Due(q, DELETED, {Backfilled})

LEMMA DueRemovalRows ==
  ASSUME NEW q \in Seq(Rows), Apart(q)
  PROVE  /\ DueRemovals(q) \in Seq(Rows) /\ Apart(DueRemovals(q))
         /\ Range(DueRemovals(q)) = {r \in Range(q) : r.due /\ r.type = DELETED}
<1> DEFINE p1 == Due(q, DELETED, {DeletedFirst})
           p2 == Due(q, DELETED, {NewJob})
           p3 == Due(q, DELETED, {Backfilled})
           p == p1 \o p2
<1>1. /\ p1 \in Seq(Rows) /\ Apart(p1) /\ p2 \in Seq(Rows) /\ Apart(p2) /\ p3 \in Seq(Rows) /\ Apart(p3)
      /\ Range(p1) = {r \in Range(q) : r.due /\ r.type = DELETED /\ r.priority \in {DeletedFirst}}
      /\ Range(p2) = {r \in Range(q) : r.due /\ r.type = DELETED /\ r.priority \in {NewJob}}
      /\ Range(p3) = {r \in Range(q) : r.due /\ r.type = DELETED /\ r.priority \in {Backfilled}}
  <2>1. ASSUME NEW P
        PROVE  /\ Due(q, DELETED, P) \in Seq(Rows) /\ Apart(Due(q, DELETED, P))
               /\ Range(Due(q, DELETED, P)) =
                    {r \in Range(q) : r.due /\ r.type = DELETED /\ r.priority \in P}
    BY DueRows
  <2>2. QED
    BY <2>1
<1>2. DeletedFirst # NewJob /\ DeletedFirst # Backfilled /\ NewJob # Backfilled
  BY DEF DeletedFirst, NewJob, Backfilled
<1>3. \A r \in Range(q) : r.priority \in {DeletedFirst, NewJob, Backfilled}
  <2>1. \A r \in Range(q) : r \in Rows
    BY DEF Range
  <2>2. \A r \in Rows : r.priority \in Priorities
    BY DEF Rows
  <2>3. QED
    BY <2>1, <2>2 DEF Priorities
<1>4. DueRemovals(q) = p \o p3
  BY DEF DueRemovals
<1> HIDE DEF p1, p2, p3
<1>5. Range(p1) \cup Range(p2) \subseteq Range(q) /\ Range(p1) \cap Range(p2) = {}
  BY <1>1, <1>2
<1>6. p \in Seq(Rows) /\ Apart(p) /\ Range(p) = Range(p1) \cup Range(p2)
  BY <1>1, <1>5, CatApart
<1> HIDE DEF p
<1>7. Range(p) \cup Range(p3) \subseteq Range(q) /\ Range(p) \cap Range(p3) = {}
  BY <1>1, <1>2, <1>6
<1>8. p \o p3 \in Seq(Rows) /\ Apart(p \o p3) /\ Range(p \o p3) = Range(p) \cup Range(p3)
  <2>1. p \in Seq(Rows) /\ Apart(p) /\ p3 \in Seq(Rows) /\ Apart(p3)
    BY <1>1, <1>6
  <2>2. QED
    BY <1>7, <2>1, CatApart
<1>9. Range(p) \cup Range(p3) = {r \in Range(q) : r.due /\ r.type = DELETED}
  BY <1>1, <1>3, <1>6
<1>10. QED
  BY <1>4, <1>8, <1>9

LEMMA RemovalRows ==
  ASSUME TypeOK, NEW q \in Seq(Rows), Apart(q)
  PROVE  /\ RemovalsOf(q) = First(BatchSize - Len(NewOf(q)), DueRemovals(q))
         /\ BatchSize - Len(NewOf(q)) \in Int
         /\ RemovalsOf(q) \in Seq(Rows) /\ Apart(RemovalsOf(q)) /\ Len(RemovalsOf(q)) \in Nat
         /\ Range(RemovalsOf(q)) \subseteq {r \in Range(q) : r.type = DELETED}
<1> DEFINE k == BatchSize - Len(NewOf(q))
           p == DueRemovals(q)
<1>1. RemovalsOf(q) = First(k, p)
  BY DEF RemovalsOf, DueRemovals
<1>2. k \in Int
  BY NewRows, BatchNumbers
<1>3. /\ p \in Seq(Rows) /\ Apart(p)
      /\ Range(p) = {r \in Range(q) : r.due /\ r.type = DELETED}
  BY DueRemovalRows
<1> HIDE DEF k, p
<1>4. /\ First(k, p) \in Seq(Rows) /\ Range(First(k, p)) \subseteq Range(p)
      /\ Len(First(k, p)) \in Nat /\ Apart(First(k, p))
  <2>1. /\ First(k, p) \in Seq(Rows) /\ Range(First(k, p)) \subseteq Range(p)
        /\ Len(First(k, p)) \in Nat
    BY <1>2, <1>3, FirstRows
  <2>2. Apart(First(k, p))
    BY <1>2, <1>3, FirstApart
  <2>3. QED
    BY <2>1, <2>2
<1>5. QED
  BY <1>1, <1>2, <1>3, <1>4 DEF k, p

LEMMA BackfillRows ==
  ASSUME TypeOK, NEW q \in Seq(Rows), Apart(q)
  PROVE  /\ BackfillOf(q) \in Seq(Rows) /\ Apart(BackfillOf(q)) /\ Len(BackfillOf(q)) \in Nat
         /\ Len(BackfillOf(q)) <= Budget(q) - Len(NewOf(q))
         /\ Range(BackfillOf(q)) \subseteq {r \in Range(q) : r.type = UPDATED /\ r.priority = Backfilled}
<1> DEFINE p == Due(q, UPDATED, {Backfilled})
           room == Budget(q) - Len(NewOf(q))
           k == Lesser(BatchSize - Len(NewOf(q)) - Len(RemovalsOf(q)), room)
<1>1. BackfillOf(q) = First(k, p)
  BY DEF BackfillOf
<1>2. room \in Nat
  BY NewRows, BatchNumbers
<1>3. k \in Int /\ k <= room
  <2>1. BatchSize - Len(NewOf(q)) - Len(RemovalsOf(q)) \in Int
    BY NewRows, RemovalRows, BatchNumbers
  <2> HIDE DEF room
  <2>2. QED
    BY <1>2, <2>1 DEF Lesser
<1>4. /\ p \in Seq(Rows) /\ Apart(p)
      /\ Range(p) = {r \in Range(q) : r.due /\ r.type = UPDATED /\ r.priority \in {Backfilled}}
  BY DueRows
<1> HIDE DEF k, p, room
<1>5. /\ First(k, p) \in Seq(Rows) /\ Range(First(k, p)) \subseteq Range(p)
      /\ Len(First(k, p)) = Lesser(NotNegative(k), Len(p)) /\ Len(First(k, p)) \in Nat
      /\ Apart(First(k, p)) /\ Len(p) \in Nat
  <2>1. /\ First(k, p) \in Seq(Rows) /\ Range(First(k, p)) \subseteq Range(p)
        /\ Len(First(k, p)) = Lesser(NotNegative(k), Len(p)) /\ Len(First(k, p)) \in Nat
    BY <1>3, <1>4, FirstRows
  <2>2. Apart(First(k, p))
    BY <1>3, <1>4, FirstApart
  <2>3. QED
    BY <1>4, <2>1, <2>2
<1>6. Len(First(k, p)) <= room
  BY <1>2, <1>3, <1>5 DEF Lesser, NotNegative
<1>7. QED
  BY <1>1, <1>4, <1>5, <1>6 DEF room

\* A batch names no job twice.
LEMMA BatchApart ==
  ASSUME TypeOK, NEW q \in Seq(Rows), Apart(q)
  PROVE  /\ PickBatch(q) \in Seq(Rows) /\ Apart(PickBatch(q))
         /\ Range(PickBatch(q)) = Range(NewOf(q)) \cup Range(RemovalsOf(q)) \cup Range(BackfillOf(q))
         /\ Len(PickBatch(q)) = Len(NewOf(q)) + Len(RemovalsOf(q)) + Len(BackfillOf(q))
<1> DEFINE n == NewOf(q)
           d == RemovalsOf(q)
           b == BackfillOf(q)
           p == n \o d
<1>1. PickBatch(q) = p \o b
  BY BatchParts
<1>2. /\ n \in Seq(Rows) /\ Apart(n)
      /\ Range(n) \subseteq {r \in Range(q) : r.type = UPDATED /\ r.priority # Backfilled}
  BY NewRows
<1>3. d \in Seq(Rows) /\ Apart(d) /\ Range(d) \subseteq {r \in Range(q) : r.type = DELETED}
  BY RemovalRows
<1>4. /\ b \in Seq(Rows) /\ Apart(b)
      /\ Range(b) \subseteq {r \in Range(q) : r.type = UPDATED /\ r.priority = Backfilled}
  BY BackfillRows
<1> HIDE DEF n, d, b
<1>5. Range(n) \cup Range(d) \subseteq Range(q) /\ Range(n) \cap Range(d) = {}
  BY <1>2, <1>3, Kinds
<1>6. /\ p \in Seq(Rows) /\ Apart(p) /\ Range(p) = Range(n) \cup Range(d)
      /\ Len(p) = Len(n) + Len(d)
  BY <1>2, <1>3, <1>5, CatApart
<1> HIDE DEF p
<1>7. Range(p) \cup Range(b) \subseteq Range(q) /\ Range(p) \cap Range(b) = {}
  BY <1>2, <1>3, <1>4, <1>6, Kinds
<1>8. /\ p \o b \in Seq(Rows) /\ Apart(p \o b) /\ Range(p \o b) = Range(p) \cup Range(b)
      /\ Len(p \o b) = Len(p) + Len(b)
  <2>1. p \in Seq(Rows) /\ Apart(p) /\ b \in Seq(Rows) /\ Apart(b)
    BY <1>4, <1>6
  <2>2. QED
    BY <1>7, <2>1, CatApart
<1>9. QED
  BY <1>1, <1>6, <1>8 DEF n, d, b

LEMMA IdsFit ==
  ASSUME NEW s \in Seq(Rows)
  PROVE  LET I == {r.id : r \in Range(s)}
         IN IsFiniteSet(I) /\ Cardinality(I) \in Nat /\ Cardinality(I) <= Len(s)
<1> DEFINE I == {r.id : r \in Range(s)}
           f == [k \in 1..Len(s) |-> s[k].id]
<1>1. Len(s) \in Nat /\ DOMAIN s = 1..Len(s)
  OBVIOUS
<1>2. f \in Surjection(1..Len(s), I)
  BY <1>1 DEF Surjection, Range
<1>3. IsFiniteSet(1..Len(s)) /\ Cardinality(1..Len(s)) = Len(s)
  BY <1>1, FS_Interval
<1> HIDE DEF f, I
<1>4. IsFiniteSet(I) /\ Cardinality(I) <= Cardinality(1..Len(s))
  BY <1>2, <1>3, FS_Surjection
<1>5. QED
  BY <1>3, <1>4, FS_CardinalityType DEF I

\* The budget covers the updates of a batch.
LEMMA UpdatesFit ==
  ASSUME TypeOK, NEW q \in Seq(Rows), Apart(q)
  PROVE  LET I == {r.id : r \in OfType(Range(PickBatch(q)), UPDATED)}
         IN  Cardinality(I) \in Nat /\ Cardinality(I) <= Budget(q)
<1> DEFINE I == {r.id : r \in OfType(Range(PickBatch(q)), UPDATED)}
           A == {r.id : r \in Range(NewOf(q))}
           B == {r.id : r \in Range(BackfillOf(q))}
<1>1. I \subseteq A \cup B
  BY BatchApart, RemovalRows, Kinds DEF OfType
<1>2. /\ IsFiniteSet(A) /\ Cardinality(A) \in Nat /\ Cardinality(A) <= Len(NewOf(q))
      /\ Len(NewOf(q)) \in Nat
  BY NewRows, IdsFit
<1>3. /\ IsFiniteSet(B) /\ Cardinality(B) \in Nat /\ Cardinality(B) <= Len(BackfillOf(q))
      /\ Len(BackfillOf(q)) \in Nat /\ Len(BackfillOf(q)) <= Budget(q) - Len(NewOf(q))
  BY BackfillRows, IdsFit
<1> HIDE DEF I, A, B
<1>4. IsFiniteSet(A \cup B) /\ Cardinality(A \cup B) <= Cardinality(A) + Cardinality(B)
  BY <1>2, <1>3, UnionBound
<1>5. IsFiniteSet(I) /\ Cardinality(I) <= Cardinality(A \cup B)
  BY <1>1, <1>4, FS_Subset
<1>6. Cardinality(I) \in Nat /\ Cardinality(A \cup B) \in Nat /\ Budget(q) \in Nat
  BY <1>4, <1>5, FS_CardinalityType, BatchNumbers
<1>7. QED
  BY <1>2, <1>3, <1>4, <1>5, <1>6 DEF I

\* When every removal is due and of the first priority, they go in their order.
LEMMA RemovalsInOrder ==
  ASSUME TypeOK, NEW q \in Seq(Rows), Apart(q), Prompt(q),
         NEW m \in DOMAIN q, NEW n \in DOMAIN q, m < n,
         q[m].type = DELETED, q[n].type = DELETED, q[n] \in Range(PickBatch(q))
  PROVE  q[m] \in Range(PickBatch(q))
<1> DEFINE S == {r \in Range(q) : r.type = DELETED}
           p == Kept(q, S)
           K == Places(q, S)
           k == BatchSize - Len(NewOf(q))
<1>1. DueRemovals(q) = p
  <2>1. ASSUME NEW x \in {NewJob, Backfilled} PROVE Due(q, DELETED, {x}) = <<>>
    <3>1. /\ Due(q, DELETED, {x}) \in Seq(Rows)
          /\ Range(Due(q, DELETED, {x})) = {r \in Range(q) : r.due /\ r.type = DELETED /\ r.priority \in {x}}
      BY DueRows
    <3>2. Range(Due(q, DELETED, {x})) = {}
      <4>1. x # DeletedFirst
        BY DEF DeletedFirst, NewJob, Backfilled
      <4>2. \A r \in Range(q) : r.type = DELETED => r.priority # x
        BY <4>1 DEF Prompt
      <4>3. QED
        BY <3>1, <4>2
    <3> DEFINE z == Due(q, DELETED, {x})
    <3>3. z \in Seq(Rows) /\ \A i \in DOMAIN z : FALSE
      BY <3>1, <3>2 DEF Range
    <3> HIDE DEF z
    <3>4. z = <<>>
      <4>1. Len(z) \in Nat /\ DOMAIN z = 1..Len(z)
        BY <3>3
      <4>2. ~(1 \in DOMAIN z)
        BY <3>3
      <4>3. Len(z) = 0
        BY ONLY <4>1, <4>2
      <4>4. QED
        BY <3>3, <4>3
    <3>5. QED
      BY <3>4 DEF z
  <2>2. Due(q, DELETED, {DeletedFirst}) = p
    <3>1. {r \in Range(q) : r.due /\ r.type = DELETED /\ r.priority \in {DeletedFirst}} = S
      BY DEF Prompt
    <3>2. QED
      BY <3>1 DEF Due
  <2>3. p \in Seq(Rows)
    BY KeptRows
  <2> HIDE DEF p
  <2>4. p \o <<>> \o <<>> = p
    BY <2>3
  <2>5. QED
    BY <2>1, <2>2, <2>4 DEF DueRemovals
<1>2. p \in Seq(Rows) /\ Apart(p) /\ Range(p) = S
  BY KeptRows, KeptApart
<1>3. RemovalsOf(q) = First(k, p) /\ k \in Int
  BY <1>1, RemovalRows
<1>4. /\ DOMAIN First(k, p) = 1..Lesser(NotNegative(k), Len(p))
      /\ \A i \in DOMAIN First(k, p) : i \in DOMAIN p /\ First(k, p)[i] = p[i]
  BY <1>2, <1>3, FirstApart
<1>5. q[n] \in Range(First(k, p))
  BY <1>3, BatchApart, NewRows, BackfillRows, Kinds
<1>6. PICK i \in DOMAIN First(k, p) : p[i] = q[n]
  BY <1>4, <1>5 DEF Range
<1>7. PICK j \in DOMAIN p : p[j] = q[m]
  <2>1. q[m] \in S
    BY DEF Range
  <2>2. QED
    BY <1>2, <2>1 DEF Range
<1>8. j <= i
  <2>1. i \in DOMAIN p
    BY <1>4
  <2>2. /\ Nth(K, i) \in DOMAIN q /\ p[i] = q[Nth(K, i)]
        /\ Nth(K, j) \in DOMAIN q /\ p[j] = q[Nth(K, j)]
        /\ j <= i <=> Nth(K, j) <= Nth(K, i)
    BY <2>1, KeptOrder
  <2>3. Nth(K, i) = n /\ Nth(K, j) = m
    BY <1>6, <1>7, <2>2 DEF Apart
  <2>4. m \in Nat /\ n \in Nat
    OBVIOUS
  <2>5. QED
    BY <2>2, <2>3, <2>4
<1>9. j \in DOMAIN First(k, p) /\ First(k, p)[j] = q[m]
  <2>1. j \in Nat /\ j >= 1 /\ Lesser(NotNegative(k), Len(p)) \in Nat
    BY <1>2, <1>3 DEF Lesser, NotNegative
  <2>2. j \in 1..Lesser(NotNegative(k), Len(p))
    BY <1>4, <1>6, <1>8, <2>1
  <2>3. QED
    BY <1>4, <1>7, <2>2
<1>10. q[m] \in Range(RemovalsOf(q))
  BY <1>3, <1>9 DEF Range
<1>11. QED
  BY <1>10, BatchApart

\* The worker leaves a removal only when the quota is used up.
LEMMA NothingPicked ==
  ASSUME TypeOK, NEW q \in Seq(Rows), Apart(q), Prompt(q), PickBatch(q) = <<>>,
         NEW r \in Range(q), r.type = DELETED
  PROVE  sent[UPDATED] + sent[DELETED] >= DailyLimit
<1> DEFINE k == BatchSize - Len(NewOf(q))
           p == DueRemovals(q)
<1>1. Len(NewOf(q)) = 0 /\ Len(RemovalsOf(q)) = 0
  <2>1. Len(PickBatch(q)) = 0
    OBVIOUS
  <2>2. /\ Len(NewOf(q)) \in Nat /\ Len(RemovalsOf(q)) \in Nat /\ Len(BackfillOf(q)) \in Nat
        /\ Len(PickBatch(q)) = Len(NewOf(q)) + Len(RemovalsOf(q)) + Len(BackfillOf(q))
    BY NewRows, RemovalRows, BackfillRows, BatchApart
  <2>3. QED
    BY <2>1, <2>2
<1>2. RemovalsOf(q) = First(k, p) /\ k \in Int
  BY RemovalRows
<1>3. p \in Seq(Rows) /\ r \in Range(p)
  BY DueRemovalRows DEF Prompt
<1> HIDE DEF k, p
<1>4. Len(p) \in Nat /\ Len(p) > 0
  BY <1>3 DEF Range
<1>5. Lesser(NotNegative(k), Len(p)) = 0
  BY <1>1, <1>2, <1>3, FirstRows
<1>6. k <= 0
  BY <1>2, <1>4, <1>5 DEF Lesser, NotNegative
<1>7. BatchSize <= 0
  BY <1>1, <1>6, BatchNumbers DEF k
<1>8. QED
  BY <1>7, BatchNumbers, Constants

----------------------------------------------------------------------------
(* The steps without a mishap.                                             *)

LEMMA DayNumbers ==
  /\ DayOfRemovals \in Nat /\ DayOfRemovals <= DailyLimit /\ DayOfRemovals <= Floor
  /\ \A x \in Int : (x - 1) * DayOfRemovals = x * DayOfRemovals - DayOfRemovals
  /\ \A x \in Int : x * DayOfRemovals \in Int
<1>1. DayOfRemovals \in Nat /\ DayOfRemovals <= DailyLimit /\ DayOfRemovals <= Floor
  BY Constants DEF DayOfRemovals, Lesser
<1> DEFINE d == DayOfRemovals
<1> HIDE DEF d
<1>2. d \in Nat => \A x \in Int : (x - 1) * d = x * d - d /\ x * d \in Int
  OBVIOUS
<1>3. QED
  BY <1>1, <1>2 DEF d

\* Sets of ids have a size.
LEMMA IdsFinite ==
  ASSUME NEW I \in SUBSET Ids
  PROVE  /\ IsFiniteSet(I) /\ Cardinality(I) \in Nat
         /\ \A J \in SUBSET I : Cardinality(J) \in Nat /\ Cardinality(J) <= Cardinality(I)
<1>1. IsFiniteSet(Ids)
  <2>1. 2 * Cardinality(Slugs) + Cardinality(Callers) \in Nat
    BY Constants, FS_CardinalityType
  <2>2. QED
    BY <2>1, FS_Interval DEF Ids
<1>2. IsFiniteSet(I)
  BY <1>1, FS_Subset
<1>3. QED
  BY <1>2, FS_Subset, FS_CardinalityType

LEMMA BatchIds ==
  ASSUME TypeInv
  PROVE  /\ \A t : Picked(t) \in SUBSET Ids
         /\ \A n \in DOMAIN queue : AheadOf(queue, n) \in SUBSET Ids /\ ToCome(n) \in SUBSET Ids
         /\ Waiting \in SUBSET Ids
         /\ items = <<>> => \A t : Picked(t) = {}
         /\ phase # "done" => \A t : InLog(t) = {}
<1>1. \A r \in Rows : r.id \in Ids
  BY DEF Rows
<1>2. ASSUME NEW t PROVE Picked(t) \in SUBSET Ids
  <2>1. \A k \in DOMAIN items : items[k] \in Rows
    BY DEF TypeInv, Rowed
  <2>2. QED
    BY <1>1, <2>1 DEF Picked
<1>3. \A n \in DOMAIN queue : AheadOf(queue, n) \in SUBSET Ids
  BY <1>1, QueueType DEF AheadOf
<1>4. Waiting \in SUBSET Ids
  BY <1>1, QueueType DEF Waiting
<1>5. \A n \in DOMAIN queue : ToCome(n) \in SUBSET Ids
  BY <1>2, <1>3 DEF ToCome
<1>6. items = <<>> => \A t : Picked(t) = {}
  BY DEF Picked
<1>7. phase # "done" => \A t : InLog(t) = {}
  BY DEF InLog
<1>8. QED
  BY <1>2, <1>3, <1>4, <1>5, <1>6, <1>7

LEMMA OutKept ==
  ASSUME TypeInv, TypeInv', OutInTime, Orderly(queue, queue'), sent'[DELETED] = sent[DELETED],
         \A m \in DOMAIN queue', n \in DOMAIN queue :
           /\ Aged(queue'[m]) /\ queue'[m].id \notin Picked(DELETED)'
           /\ queue[n].id = queue'[m].id /\ AheadOf(queue', m) \subseteq AheadOf(queue, n)
           => queue[n].id \notin Picked(DELETED) /\ ToCome(m)' \subseteq ToCome(n)
  PROVE  OutInTime'
<1> SUFFICES ASSUME NEW m \in DOMAIN queue', Aged(queue'[m]), queue'[m].id \notin Picked(DELETED)'
             PROVE  Cardinality(ToCome(m)') + sent'[DELETED] < (TTL - queue'[m].age) * DayOfRemovals
  BY DEF OutInTime
<1>1. PICK n \in DOMAIN queue :
        /\ queue[n].id = queue'[m].id /\ queue[n].type = queue'[m].type /\ queue[n].age = queue'[m].age
        /\ AheadOf(queue', m) \subseteq AheadOf(queue, n)
  BY DEF Orderly
<1>2. Aged(queue[n])
  BY <1>1 DEF Aged
<1>3. queue[n].id \notin Picked(DELETED) /\ ToCome(m)' \subseteq ToCome(n)
  BY <1>1
<1>4. Cardinality(ToCome(n)) + sent[DELETED] < (TTL - queue[n].age) * DayOfRemovals
  BY <1>2, <1>3 DEF OutInTime
<1>5. /\ Cardinality(ToCome(m)') <= Cardinality(ToCome(n))
      /\ Cardinality(ToCome(m)') \in Nat /\ Cardinality(ToCome(n)) \in Nat
  BY <1>3, BatchIds, IdsFinite
<1>6. sent[DELETED] \in Nat /\ (TTL - queue[n].age) * DayOfRemovals \in Int
  <2>1. queue[n].age \in Int
    BY QueueType, Constants DEF Rows
  <2>2. QED
    BY <2>1, CoveredNumbers, DayNumbers, Constants
<1> DEFINE most == (TTL - queue[n].age) * DayOfRemovals
<1>7. (TTL - queue'[m].age) * DayOfRemovals = most
  BY <1>1
<1>8. Cardinality(ToCome(n)) + sent[DELETED] < most /\ most \in Int
  BY <1>4, <1>6
<1> HIDE DEF most
<1>9. QED
  BY <1>5, <1>6, <1>7, <1>8

LEMMA FloorKept ==
  ASSUME TypeInv, TypeInv', FloorIsKept,
         (\E m \in DOMAIN queue' : Aged(queue'[m])) => \E n \in DOMAIN queue : Aged(queue[n]),
         Cardinality(ToSend') \in Nat,
         sent'[UPDATED] + Cardinality(ToSend') <= sent[UPDATED] + Cardinality(ToSend)
  PROVE  FloorIsKept'
<1>1. /\ Cardinality(ToSend) \in Nat /\ Cardinality(ToSend') \in Nat
      /\ sent[UPDATED] \in Nat /\ sent'[UPDATED] \in Nat /\ DailyLimit \in Nat
  <2>1. ToSend \in SUBSET Ids
    BY BatchIds DEF ToSend
  <2>2. sent'[UPDATED] \in Nat
    BY Kinds DEF TypeInv, TypeOK
  <2>3. QED
    BY <2>1, <2>2, IdsFinite, CoveredNumbers
<1>2. QED
  BY <1>1, DayNumbers DEF FloorIsKept

LEMMA OrderlyAged ==
  ASSUME NEW p, NEW q, Orderly(p, q), NEW m \in DOMAIN q, Aged(q[m])
  PROVE  \E n \in DOMAIN p : Aged(p[n])
BY DEF Orderly, Aged

\* The worker rests.
LEMMA OutWhileResting ==
  ASSUME TypeInv, TypeInv', OutInTime, FloorIsKept, Orderly(queue, queue'), UNCHANGED <<worker, sent>>
  PROVE  OutInTime' /\ FloorIsKept'
<1>1. \A t : Picked(t)' = Picked(t) /\ InLog(t)' = InLog(t)
  BY DEF worker, Picked, InLog, Item
<1>2. OutInTime'
  <2>1. ASSUME NEW m \in DOMAIN queue', NEW n \in DOMAIN queue,
               queue'[m].id \notin Picked(DELETED)', queue[n].id = queue'[m].id,
               AheadOf(queue', m) \subseteq AheadOf(queue, n)
        PROVE  queue[n].id \notin Picked(DELETED) /\ ToCome(m)' \subseteq ToCome(n)
    BY <1>1, <2>1 DEF ToCome
  <2>2. QED
    BY <2>1, OutKept
<1>3. ToSend' = ToSend
  BY <1>1 DEF ToSend
<1>4. /\ Cardinality(ToSend') \in Nat
      /\ sent'[UPDATED] + Cardinality(ToSend') <= sent[UPDATED] + Cardinality(ToSend)
  <2>1. ToSend \in SUBSET Ids
    BY BatchIds DEF ToSend
  <2>2. QED
    BY <1>3, <2>1, IdsFinite, CoveredNumbers
<1>5. FloorIsKept'
  BY <1>4, OrderlyAged, FloorKept
<1>6. QED
  BY <1>2, <1>5

\* No removal is too old for the worker.
LEMMA NoneTooOld ==
  ASSUME TypeInv, OutInTime, phase = "idle"
  PROVE  Fresh = queue /\ \A n \in DOMAIN queue : Aged(queue[n]) => queue[n].age < TTL
<1>1. ASSUME NEW n \in DOMAIN queue, Aged(queue[n]) PROVE queue[n].age < TTL
  <2>1. queue[n].age \in 0..TTL
    BY QueueType DEF Rows
  <2>2. SUFFICES ASSUME queue[n].age = TTL PROVE FALSE
    BY <2>1, Constants
  <2>3. Picked(DELETED) = {}
    BY BatchIds DEF TypeInv, Batch
  <2>4. Cardinality(ToCome(n)) + sent[DELETED] < (TTL - queue[n].age) * DayOfRemovals
    BY <1>1, <2>3 DEF OutInTime
  <2>5. (TTL - queue[n].age) * DayOfRemovals = 0
    <3>1. TTL - queue[n].age = 0
      BY <2>2, Constants
    <3>2. QED
      BY <3>1, DayNumbers
  <2>6. Cardinality(ToCome(n)) \in Nat /\ sent[DELETED] \in Nat
    BY BatchIds, IdsFinite, CoveredNumbers
  <2>7. QED
    BY <2>4, <2>5, <2>6
<1>2. \A r \in Range(queue) : ~TooOld(r)
  <2> SUFFICES ASSUME NEW n \in DOMAIN queue, TooOld(queue[n]) PROVE FALSE
    BY DEF Range
  <2>1. queue[n].age \in Nat /\ queue[n].age >= TTL
    BY QueueType DEF Rows, TooOld
  <2>2. Aged(queue[n])
    BY <2>1, Constants DEF TooOld, Aged
  <2>3. QED
    BY <1>1, <2>1, <2>2, Constants
<1>3. Range(queue) \subseteq {r \in Range(queue) : ~TooOld(r)}
  BY <1>2
<1>4. Fresh = queue
  BY <1>3, QueueType, KeptAll DEF Fresh
<1>5. QED
  BY <1>1, <1>4

LEMMA PickOut ==
  ASSUME TypeInv, TypeInv', Smooth, OutInTime, FloorIsKept, Pick
  PROVE  /\ queue' = queue /\ expired' = expired /\ Apart(items')
         /\ OutInTime' /\ FloorIsKept'
<1>1. /\ phase = "idle" /\ items = <<>> /\ phase' # "done" /\ UNCHANGED sent
      /\ Fresh = queue /\ queue' = queue /\ items' = PickBatch(queue) /\ expired' = expired
  <2>1. phase = "idle" /\ items = <<>>
    BY DEF Pick, TypeInv, Batch
  <2>2. Fresh = queue
    BY <2>1, NoneTooOld
  <2>3. QED
    BY <2>1, <2>2 DEF Pick, logged, Smooth, TypeInv, TypeOK
<1> DEFINE b == PickBatch(queue)
<1>2. queue \in Seq(Rows) /\ Apart(queue) /\ Prompt(queue) /\ TypeOK
  BY QueueType DEF Smooth, TypeInv
<1>3. b \in Seq(Rows) /\ Apart(b) /\ Range(b) \subseteq Range(queue)
  BY <1>2, BatchApart, PickBatchRows
<1>4. \A t : Picked(t) = {} /\ InLog(t) = {} /\ InLog(t)' = {}
            /\ Picked(t)' = {r.id : r \in OfType(Range(b), t)}
  <2>1. \A t : Picked(t) = {} /\ InLog(t) = {} /\ InLog(t)' = {}
    BY <1>1, BatchIds DEF InLog
  <2>2. ASSUME NEW t PROVE Picked(t)' = {r.id : r \in OfType(Range(b), t)}
    <3>1. Picked(t)' = {b[k].id : k \in {k \in DOMAIN b : b[k].type = t}}
      BY <1>1 DEF Picked
    <3> HIDE DEF b
    <3>2. {b[k].id : k \in {k \in DOMAIN b : b[k].type = t}} = {r.id : r \in OfType(Range(b), t)}
      BY DEF OfType, Range
    <3>3. QED
      BY <3>1, <3>2
  <2>3. QED
    BY <2>1, <2>2
<1>5. Orderly(queue, queue')
  BY <1>1, QueueType, OrderlySame
<1>6. OutInTime'
  <2>1. ASSUME NEW m \in DOMAIN queue, queue[m].type = DELETED, queue[m].id \notin Picked(DELETED)'
        PROVE  ToCome(m)' \subseteq ToCome(m)
    <3>1. queue[m] \notin Range(b)
      BY <1>4, <2>1 DEF OfType
    <3>2. ASSUME NEW i \in Picked(DELETED)' PROVE i \in AheadOf(queue, m)
      <4>1. PICK r \in Range(b) : r.type = DELETED /\ r.id = i
        BY <1>4, <3>2 DEF OfType
      <4>2. PICK n \in DOMAIN queue : queue[n] = r
        BY <1>3, <4>1 DEF Range
      <4>3. ~(m < n)
        BY <1>2, <2>1, <3>1, <4>1, <4>2, RemovalsInOrder
      <4>4. m # n
        BY <3>1, <4>1, <4>2
      <4>5. n < m
        BY <4>3, <4>4, QueueType
      <4>6. QED
        BY <4>1, <4>2, <4>5 DEF AheadOf
    <3>3. QED
      BY <1>1, <1>4, <3>2 DEF ToCome
  <2>2. ASSUME NEW m \in DOMAIN queue', NEW n \in DOMAIN queue,
               Aged(queue'[m]), queue'[m].id \notin Picked(DELETED)', queue[n].id = queue'[m].id
        PROVE  queue[n].id \notin Picked(DELETED) /\ ToCome(m)' \subseteq ToCome(n)
    <3>1. m = n
      BY <1>1, <1>2, <2>2 DEF Apart
    <3>2. QED
      BY <1>1, <1>4, <2>1, <2>2, <3>1 DEF Aged
  <2>3. QED
    BY <1>1, <1>5, <2>2, OutKept
<1>7. FloorIsKept'
  <2> SUFFICES ASSUME NEW n \in DOMAIN queue, Aged(queue[n])
               PROVE  sent'[UPDATED] + Cardinality(ToSend') + DayOfRemovals <= DailyLimit
    BY <1>1 DEF FloorIsKept
  <2>1. Reserve(queue) = NotNegative(Floor - sent[DELETED])
    <3>1. queue[n] \in Range(queue) /\ queue[n].type = DELETED /\ queue[n].due
      BY <1>2 DEF Aged, Prompt, Range
    <3>2. QED
      BY <3>1 DEF Reserve
  <2>2. Cardinality(ToSend') \in Nat /\ Cardinality(ToSend') <= Budget(queue)
    <3>1. ToSend' = {r.id : r \in OfType(Range(b), UPDATED)}
      BY <1>4 DEF ToSend
    <3>2. QED
      BY <1>2, <3>1, UpdatesFit
  <2>3. sent[UPDATED] + 0 + DayOfRemovals <= DailyLimit
    <3>1. Cardinality(ToSend) = 0
      BY <1>4, FS_EmptySet DEF ToSend
    <3>2. QED
      BY <3>1 DEF FloorIsKept
  <2>4. sent'[UPDATED] = sent[UPDATED]
    BY <1>1
  <2>5. /\ sent[UPDATED] \in Nat /\ sent[DELETED] \in Nat /\ DayOfRemovals \in Nat
        /\ DayOfRemovals <= Floor /\ Floor \in Nat /\ DailyLimit \in Nat
    BY <1>2, BatchNumbers, DayNumbers, Constants
  <2>6. Budget(queue)
          = NotNegative(DailyLimit - sent[UPDATED] - sent[DELETED] - NotNegative(Floor - sent[DELETED]))
    BY <1>2, <2>1, BatchNumbers DEF Budget
  <2>7. Budget(queue) = 0 \/ sent[UPDATED] + Budget(queue) + DayOfRemovals <= DailyLimit
    BY ONLY <2>5, <2>6 DEF NotNegative
  <2>8. Budget(queue) \in Nat
    BY <1>2, BatchNumbers
  <2>9. QED
    BY <2>2, <2>3, <2>4, <2>5, <2>7, <2>8
<1>8. QED
  BY <1>1, <1>3, <1>6, <1>7

\* What a finished row leaves in hand.
LEMMA TailIds ==
  ASSUME TypeInv, phase # "idle", Apart(items), items' = Tail(items)
  PROVE  /\ Apart(items')
         /\ \A t : /\ Picked(t)' \subseteq Picked(t) \ {Item.id}
                   /\ Picked(t) \subseteq Picked(t)' \cup {Item.id}
         /\ \A t : Item.type # t => Picked(t) \subseteq Picked(t)'
<1>1. /\ Len(items) \in Nat /\ Len(items) > 0 /\ DOMAIN items = 1..Len(items) /\ Item = items[1]
      /\ DOMAIN items' = 1..(Len(items) - 1)
      /\ \A k \in DOMAIN items' : items'[k] = items[k + 1]
  BY ItemType DEF Item
<1>2. \A k \in DOMAIN items' : k + 1 \in DOMAIN items /\ k + 1 # 1 /\ 1 \in DOMAIN items
  BY <1>1
<1>3. \A k \in DOMAIN items : k = 1 \/ \E l \in DOMAIN items' : k = l + 1
  <2> SUFFICES ASSUME NEW k \in DOMAIN items, k # 1 PROVE \E l \in DOMAIN items' : k = l + 1
    OBVIOUS
  <2>1. k - 1 \in DOMAIN items' /\ k = (k - 1) + 1
    BY <1>1
  <2>2. QED
    BY <2>1
<1>4. Apart(items')
  <2> SUFFICES ASSUME NEW m \in DOMAIN items', NEW n \in DOMAIN items',
                      items'[m].slug = items'[n].slug \/ items'[m].id = items'[n].id
               PROVE  m = n
    BY DEF Apart
  <2>1. m + 1 = n + 1
    BY <1>1, <1>2 DEF Apart
  <2>2. m \in Int /\ n \in Int
    BY <1>1
  <2>3. QED
    BY <2>1, <2>2
<1>5. \A k \in DOMAIN items' : items'[k].id # Item.id
  BY <1>1, <1>2 DEF Apart
<1>6. ASSUME NEW t
      PROVE  /\ Picked(t)' \subseteq Picked(t) \ {Item.id}
             /\ Picked(t) \subseteq Picked(t)' \cup {Item.id}
             /\ Item.type # t => Picked(t) \subseteq Picked(t)'
  BY <1>1, <1>2, <1>3, <1>5 DEF Picked
<1>7. QED
  BY <1>4, <1>6

LEMMA FinishOut ==
  ASSUME TypeInv, TypeInv', Smooth, OutInTime, FloorIsKept, Skip \/ Done
  PROVE  /\ Apart(items') /\ Range(queue') \subseteq Range(queue)
         /\ OutInTime' /\ FloorIsKept'
<1>1. /\ phase \in {"skip", "done"} /\ items' = Tail(items) /\ phase' # "done"
      /\ sent' = sent /\ queue' = Removed
  BY DEF Skip, Done, Finish, GoesOn, logged
<1>2. /\ Apart(items')
      /\ \A t : /\ Picked(t)' \subseteq Picked(t) \ {Item.id}
                /\ Picked(t) \subseteq Picked(t)' \cup {Item.id}
      /\ \A t : Item.type # t => Picked(t) \subseteq Picked(t)'
  BY <1>1, TailIds DEF Smooth
<1>3. \A t : InLog(t)' = {} /\ InLog(t) \subseteq {Item.id} /\ (Item.type # t => InLog(t) = {})
  BY <1>1 DEF InLog
<1>4. /\ Range(queue') \subseteq Range(queue) /\ Orderly(queue, queue')
      /\ \A r \in Range(queue') : ~Unchanged(r)
  <2> DEFINE S == {r \in Range(queue) : ~Unchanged(r)}
  <2>1. queue' = Kept(queue, S)
    BY <1>1 DEF Removed
  <2>2. Range(Kept(queue, S)) = Range(queue) \cap S /\ Orderly(queue, Kept(queue, S))
    BY QueueType, KeptRows, OrderlyKept
  <2>3. QED
    BY <2>1, <2>2
<1>5. OutInTime'
  <2>1. ASSUME NEW m \in DOMAIN queue', NEW n \in DOMAIN queue,
               Aged(queue'[m]), queue'[m].id \notin Picked(DELETED)', queue[n].id = queue'[m].id,
               AheadOf(queue', m) \subseteq AheadOf(queue, n)
        PROVE  queue[n].id \notin Picked(DELETED) /\ ToCome(m)' \subseteq ToCome(n)
    <3>1. \A k \in DOMAIN queue' : queue'[k].id = Item.id => queue'[k].type # Item.type
      BY <1>4 DEF Unchanged, Range
    <3>2. queue[n].id \notin Picked(DELETED)
      <4>1. CASE Item.type # DELETED
        BY <1>2, <2>1, <4>1
      <4>2. CASE Item.type = DELETED
        BY <1>2, <2>1, <3>1, <4>2 DEF Aged
      <4>3. QED
        BY <4>1, <4>2
    <3>3. ASSUME NEW i \in ToCome(m)' PROVE i \in ToCome(n)
      <4>1. i \in AheadOf(queue', m) \cup Picked(DELETED)'
        BY <3>3 DEF ToCome
      <4>2. i \in AheadOf(queue, n) \cup Picked(DELETED)
        BY <1>2, <2>1, <4>1
      <4>3. i \notin InLog(DELETED)
        <5>1. CASE Item.type # DELETED
          BY <1>3, <5>1
        <5>2. CASE Item.type = DELETED
          <6>1. i # Item.id
            BY <1>2, <3>1, <4>1, <5>2 DEF AheadOf
          <6>2. QED
            BY <1>3, <6>1
        <5>3. QED
          BY <5>1, <5>2
      <4>4. QED
        BY <4>2, <4>3 DEF ToCome
    <3>4. QED
      BY <3>2, <3>3
  <2>2. QED
    BY <1>1, <1>4, <2>1, OutKept
<1>6. FloorIsKept'
  <2>1. ToSend' \subseteq ToSend /\ ToSend \in SUBSET Ids
    <3>1. ToSend' \subseteq ToSend
      BY <1>2, <1>3 DEF ToSend
    <3>2. QED
      BY <3>1, BatchIds DEF ToSend
  <2>2. Cardinality(ToSend') \in Nat /\ Cardinality(ToSend') <= Cardinality(ToSend)
        /\ Cardinality(ToSend) \in Nat
    BY <2>1, IdsFinite
  <2>3. sent'[UPDATED] + Cardinality(ToSend') <= sent[UPDATED] + Cardinality(ToSend)
    BY <1>1, <2>2, CoveredNumbers
  <2>4. (\E m \in DOMAIN queue' : Aged(queue'[m])) => \E n \in DOMAIN queue : Aged(queue[n])
    BY <1>4, OrderlyAged
  <2>5. QED
    BY <2>2, <2>3, <2>4, FloorKept
<1>7. QED
  BY <1>2, <1>4, <1>5, <1>6

LEMMA LogOut ==
  ASSUME TypeInv, TypeInv', OutInTime, FloorIsKept, Log
  PROVE  OutInTime' /\ FloorIsKept'
<1>1. /\ phase = "log" /\ phase' = "done" /\ items' = items /\ queue' = queue
      /\ sent' = [sent EXCEPT ![Item.type] = @ + 1]
  BY DEF Log
<1>2. Item \in Range(items) /\ Item' = Item /\ Item.type \in Types
  BY <1>1, ItemType DEF Item, Rows
<1>3. /\ \A t : Picked(t)' = Picked(t) /\ InLog(t) = {}
      /\ \A t : InLog(t)' = IF Item.type = t THEN {Item.id} ELSE {}
      /\ Item.id \in Picked(Item.type)
  <2>1. \A t : Picked(t)' = Picked(t) /\ InLog(t) = {}
    BY <1>1 DEF Picked, InLog
  <2>2. \A t : InLog(t)' = IF Item.type = t THEN {Item.id} ELSE {}
    BY <1>1, <1>2 DEF InLog
  <2>3. Item.id \in Picked(Item.type)
    BY <1>2 DEF Picked, Range
  <2>4. QED
    BY <2>1, <2>2, <2>3
<1>4. ASSUME NEW I \in SUBSET Ids, NEW t \in Types, Picked(t) \subseteq I
      PROVE  /\ Cardinality(I \ InLog(t)') + sent'[t] = Cardinality(I) + sent[t]
             /\ Cardinality(I \ InLog(t)') \in Nat /\ sent'[t] \in Nat
  <2>1. sent[t] \in Nat /\ Cardinality(I) \in Nat /\ IsFiniteSet(I)
    BY IdsFinite DEF TypeInv, TypeOK
  <2>2. CASE Item.type = t
    <3>1. I \ InLog(t)' = I \ {Item.id} /\ Item.id \in I
      BY <1>3, <1>4, <2>2
    <3>2. Cardinality(I \ {Item.id}) = Cardinality(I) - 1 /\ Cardinality(I \ {Item.id}) \in Nat
      <4>1. IsFiniteSet(I \ {Item.id}) /\ Cardinality(I \ {Item.id}) = Cardinality(I) - 1
        BY <2>1, <3>1, FS_RemoveElement
      <4>2. QED
        BY <4>1, FS_CardinalityType
    <3>3. sent'[t] = sent[t] + 1
      BY <1>1, <2>2 DEF TypeInv, TypeOK
    <3>4. QED
      BY <2>1, <3>1, <3>2, <3>3
  <2>3. CASE Item.type # t
    <3>1. I \ InLog(t)' = I
      BY <1>3, <2>3
    <3>2. sent'[t] = sent[t]
      BY <1>1, <2>3 DEF TypeInv, TypeOK
    <3>3. QED
      BY <2>1, <3>1, <3>2
  <2>4. QED
    BY <2>2, <2>3
<1>5. OutInTime'
  <2> SUFFICES ASSUME NEW n \in DOMAIN queue, Aged(queue[n]), queue[n].id \notin Picked(DELETED)
               PROVE  Cardinality(ToCome(n)') + sent'[DELETED] < (TTL - queue[n].age) * DayOfRemovals
    BY <1>1, <1>3 DEF OutInTime
  <2>1. Cardinality(ToCome(n)) + sent[DELETED] < (TTL - queue[n].age) * DayOfRemovals
    BY DEF OutInTime
  <2>2. ToCome(n) \in SUBSET Ids /\ Picked(DELETED) \subseteq ToCome(n)
    BY <1>3, BatchIds DEF ToCome
  <2>3. ToCome(n)' = ToCome(n) \ InLog(DELETED)'
    BY <1>1, <1>3 DEF ToCome
  <2>4. Cardinality(ToCome(n)') + sent'[DELETED] = Cardinality(ToCome(n)) + sent[DELETED]
    BY <1>4, <2>2, <2>3, Kinds
  <2>5. QED
    BY <2>1, <2>4
<1>6. FloorIsKept'
  <2>1. ToSend \in SUBSET Ids /\ Picked(UPDATED) \subseteq ToSend /\ ToSend' = ToSend \ InLog(UPDATED)'
    BY <1>3, BatchIds DEF ToSend
  <2>2. /\ Cardinality(ToSend') + sent'[UPDATED] = Cardinality(ToSend) + sent[UPDATED]
        /\ Cardinality(ToSend') \in Nat /\ sent'[UPDATED] \in Nat
    BY <1>4, <2>1, Kinds
  <2>3. Cardinality(ToSend) \in Nat /\ sent[UPDATED] \in Nat
    BY <2>1, IdsFinite, CoveredNumbers
  <2>4. sent'[UPDATED] + Cardinality(ToSend') <= sent[UPDATED] + Cardinality(ToSend)
    BY <2>2, <2>3
  <2>5. QED
    BY <1>1, <2>2, <2>4, FloorKept
<1>7. QED
  BY <1>5, <1>6

LEMMA SameItemOut ==
  ASSUME TypeInv, TypeInv', OutInTime, FloorIsKept, UNCHANGED <<queue, items, sent>>,
         phase # "done", phase' # "done"
  PROVE  OutInTime' /\ FloorIsKept'
<1>1. \A t : Picked(t)' = Picked(t) /\ InLog(t) = {} /\ InLog(t)' = {}
  BY DEF Picked, InLog
<1>2. \A n : ToCome(n)' = ToCome(n)
  BY <1>1 DEF ToCome
<1>3. ToSend' = ToSend
  BY <1>1 DEF ToSend
<1>4. OutInTime'
  BY <1>1, <1>2 DEF OutInTime
<1>5. FloorIsKept'
  BY <1>3 DEF FloorIsKept
<1>6. QED
  BY <1>4, <1>5

LEMMA MidnightOut ==
  ASSUME TypeInv, TypeInv', Smooth, OutInTime, FloorIsKept, BacklogFits,
         Midnight, phase = "idle", PickBatch(Fresh) = <<>>
  PROVE  Prompt(queue') /\ items' = items /\ OutInTime' /\ FloorIsKept'
<1>1. /\ items = <<>> /\ UNCHANGED worker /\ sent'[UPDATED] = 0 /\ sent'[DELETED] = 0
      /\ DOMAIN queue' = DOMAIN queue
      /\ \A n \in DOMAIN queue : queue'[n] = [queue[n] EXCEPT !.age = Lesser(@ + 1, TTL)]
  BY Kinds DEF Midnight, TypeInv, Batch
<1>2. \A t : Picked(t) = {} /\ Picked(t)' = {} /\ InLog(t) = {} /\ InLog(t)' = {}
  BY <1>1, BatchIds DEF Picked, InLog, worker
<1>3. Fresh = queue /\ \A n \in DOMAIN queue : Aged(queue[n]) => queue[n].age < TTL
  BY NoneTooOld
<1>4. ASSUME NEW n \in DOMAIN queue
      PROVE  /\ queue'[n].id = queue[n].id /\ queue'[n].type = queue[n].type
             /\ queue'[n].due = queue[n].due /\ queue'[n].priority = queue[n].priority
             /\ queue'[n].age = Lesser(queue[n].age + 1, TTL) /\ queue[n].age \in 0..TTL
  BY <1>1, QueueType DEF Rows
<1>5. Prompt(queue')
  BY <1>1, <1>4 DEF Smooth, Prompt, Range
<1>6. ASSUME NEW n \in DOMAIN queue, Aged(queue[n]) PROVE sent[DELETED] >= DayOfRemovals
  <2>1. sent[UPDATED] + sent[DELETED] >= DailyLimit
    <3>1. queue[n] \in Range(queue) /\ queue[n].type = DELETED
      BY <1>6 DEF Aged, Range
    <3>2. QED
      BY <1>3, <3>1, QueueType, NothingPicked DEF Smooth, TypeInv
  <2>2. sent[UPDATED] + 0 + DayOfRemovals <= DailyLimit
    <3>1. Cardinality(ToSend) = 0
      BY <1>2, FS_EmptySet DEF ToSend
    <3>2. QED
      BY <1>6, <3>1 DEF FloorIsKept
  <2>3. QED
    BY <2>1, <2>2, CoveredNumbers, DayNumbers
<1>7. ASSUME NEW n \in DOMAIN queue, Aged(queue'[n])
      PROVE  Cardinality(AheadOf(queue, n)) < (TTL - queue'[n].age) * DayOfRemovals
  <2>0. queue[n].type = DELETED /\ queue[n].age \in Nat /\ TTL \in Nat /\ TTL > 0
    BY <1>4, <1>7, Constants DEF Aged
  <2>1. queue[n].age < TTL
    BY <1>3, <2>0 DEF Aged
  <2>2. queue'[n].age = queue[n].age + 1
    BY <1>4, <2>0, <2>1 DEF Lesser
  <2>3. AheadOf(queue, n) \in SUBSET Ids /\ Cardinality(AheadOf(queue, n)) \in Nat
    BY BatchIds, IdsFinite
  <2>4. CASE Aged(queue[n])
    <3>1. ToCome(n) = AheadOf(queue, n)
      BY <1>2 DEF ToCome
    <3> DEFINE x == TTL - queue[n].age
    <3>2. Cardinality(AheadOf(queue, n)) + sent[DELETED] < x * DayOfRemovals
      BY <1>2, <2>4, <3>1 DEF OutInTime
    <3>3. x \in Int /\ TTL - queue'[n].age = x - 1
      BY <2>0, <2>2
    <3> HIDE DEF x
    <3>4. (x - 1) * DayOfRemovals = x * DayOfRemovals - DayOfRemovals /\ x * DayOfRemovals \in Int
      BY <3>3, DayNumbers
    <3> DEFINE y == x * DayOfRemovals
    <3>5. Cardinality(AheadOf(queue, n)) + sent[DELETED] < y /\ y \in Int
      BY <3>2, <3>4
    <3>6. (TTL - queue'[n].age) * DayOfRemovals = y - DayOfRemovals
      BY <3>3, <3>4
    <3> HIDE DEF y
    <3>7. sent[DELETED] \in Nat /\ DayOfRemovals \in Nat /\ sent[DELETED] >= DayOfRemovals
      BY <1>6, <2>4, CoveredNumbers, DayNumbers
    <3>8. QED
      BY <2>3, <3>5, <3>6, <3>7
  <2>5. CASE ~Aged(queue[n])
    <3>1. queue[n].age = 0 /\ TTL - queue'[n].age = TTL - 1
      BY <2>0, <2>2, <2>5 DEF Aged
    <3>2. queue[n].id \in Waiting /\ AheadOf(queue, n) \subseteq Waiting \ {queue[n].id}
      <4>1. queue[n].id \in Waiting
        BY <2>0 DEF Waiting, Range
      <4>2. ASSUME NEW m \in DOMAIN queue, m < n, queue[m].type = DELETED
            PROVE  queue[m].id \in Waiting /\ queue[m].id # queue[n].id
        BY <4>2, QueueType DEF Waiting, Range, Apart
      <4>3. QED
        BY <4>1, <4>2 DEF AheadOf
    <3>3. Waiting \in SUBSET Ids
      BY BatchIds
    <3>4. /\ IsFiniteSet(Waiting) /\ Cardinality(Waiting) \in Nat
          /\ Cardinality(Waiting \ {queue[n].id}) = Cardinality(Waiting) - 1
      BY <3>2, <3>3, IdsFinite, FS_RemoveElement
    <3>5. Cardinality(AheadOf(queue, n)) <= Cardinality(Waiting \ {queue[n].id})
      BY <3>2, <3>4, FS_RemoveElement, FS_Subset
    <3> DEFINE y == (TTL - 1) * DayOfRemovals
    <3>6. Cardinality(Waiting) <= y /\ y \in Int
      BY <2>0, DayNumbers DEF BacklogFits
    <3>7. (TTL - queue'[n].age) * DayOfRemovals = y
      BY <3>1
    <3> HIDE DEF y
    <3>8. QED
      BY <2>3, <3>4, <3>5, <3>6, <3>7
  <2>6. QED
    BY <2>4, <2>5
<1>8. OutInTime'
  <2> SUFFICES ASSUME NEW n \in DOMAIN queue, Aged(queue'[n])
               PROVE  Cardinality(ToCome(n)') + sent'[DELETED] < (TTL - queue'[n].age) * DayOfRemovals
    BY <1>1 DEF OutInTime
  <2>1. AheadOf(queue', n) = AheadOf(queue, n)
    BY <1>1, <1>4 DEF AheadOf
  <2>2. ToCome(n)' = AheadOf(queue, n)
    BY <1>2, <2>1 DEF ToCome
  <2>3. Cardinality(AheadOf(queue, n)) \in Nat
    BY BatchIds, IdsFinite
  <2>4. Cardinality(ToCome(n)') + sent'[DELETED] = Cardinality(AheadOf(queue, n))
    BY <1>1, <2>2, <2>3
  <2>5. QED
    BY <1>7, <2>4
<1>9. FloorIsKept'
  <2>1. Cardinality(ToSend') = 0
    BY <1>2, FS_EmptySet DEF ToSend
  <2>2. QED
    BY <1>1, <2>1, DayNumbers, Constants DEF FloorIsKept
<1>10. QED
  BY <1>1, <1>5, <1>8, <1>9 DEF worker

LEMMA AsksNext ==
  ASSUME TypeInv, AsksInOrder, [Next]_vars
  PROVE  AsksInOrder'
<1>1. ASSUME NEW c \in Callers, NEW s \in Slugs, NEW t \in Types, NEW p \in Priorities,
             NEW n, Asks(c, s, t, p, n), t = DELETED => p = DeletedFirst
      PROVE  AsksInOrder'
  <2>1. /\ step' = [step EXCEPT ![c] = n]
        /\ ask' = [ask EXCEPT ![c] = [slug |-> s, type |-> t, priority |-> p]]
    BY <1>1 DEF Asks
  <2>2. ask'[c].type = t /\ ask'[c].priority = p
    BY <2>1 DEF TypeInv, TypeOK
  <2>3. \A d \in Callers : d # c => step'[d] = step[d] /\ ask'[d] = ask[d]
    BY <2>1
  <2>4. QED
    BY <1>1, <2>2, <2>3 DEF AsksInOrder
<1>2. ASSUME NEW c \in Callers, Finished(c) PROVE AsksInOrder'
  BY <1>2, FinishedFields DEF AsksInOrder
<1>3. ASSUME NEW c \in Callers, step[c] # "idle", ask' = ask,
             \A d \in Callers : d # c => step'[d] = step[d]
      PROVE  AsksInOrder'
  BY <1>3 DEF AsksInOrder
<1>4. CASE UNCHANGED <<step, ask>>
  BY <1>4 DEF AsksInOrder
<1>5. ASSUME NEW c \in Callers, Caller(c) PROVE AsksInOrder'
  <2>1. ASSUME NEW s \in Slugs, Starts(c, s) PROVE AsksInOrder'
    <3>1. \E n \in Reading \cup {"look"} :
            Asks(c, s, DELETED, DeletedFirst, n) \/ \E p \in Priorities : Asks(c, s, UPDATED, p, n)
      BY <2>1, Kinds DEF Starts, ReadToClose, ReadToActivate, Enriched, Backfill, Reading
    <3>2. QED
      BY <1>1, <3>1, Kinds
  <2>2. CASE Close(c) \/ Activate(c)
    <3>1. step[c] \in Reading /\ Written(c)
      BY <2>2 DEF Close, Activate
    <3>2. CASE step[c] = "quietly"
      BY <1>2, <3>1, <3>2 DEF Written
    <3>3. CASE step[c] # "quietly"
      <4>1. step[c] # "idle" /\ ask' = ask /\ \A d \in Callers : d # c => step'[d] = step[d]
        BY <3>1, <3>3, WrittenFields DEF Written, Reading
      <4>2. QED
        BY <1>3, <4>1
    <3>4. QED
      BY <3>2, <3>3
  <2>3. CASE Look(c) \/ CreateConflicts(c)
    <3>1. step[c] # "idle" /\ ask' = ask /\ \A d \in Callers : d # c => step'[d] = step[d]
      BY <2>3 DEF Look, CreateConflicts, TypeInv, TypeOK
    <3>2. QED
      BY <1>3, <3>1
  <2>4. CASE Drop(c) \/ Create(c) \/ CreateThrows(c) \/ Replace(c) \/ Raise(c) \/ CallerDies(c)
    BY <1>2, <2>4 DEF Drop, Create, CreateThrows, Replace, Raise, CallerDies
  <2>5. QED
    BY <1>5, <2>1, <2>2, <2>3, <2>4 DEF Caller, Starts
<1>6. ASSUME NEW s \in Slugs, Hide(s) PROVE UNCHANGED <<step, ask>>
  BY <1>6 DEF Hide, caller
<1>7. CASE Worker
  BY <1>4, <1>7 DEF Worker, Pick, Match, Skip, Send, SendFails, QuotaExceeded, Log, LogFails, Done,
     Retry, Die, caller
<1>8. CASE Midnight \/ \E n \in DOMAIN queue : BecomesDue(n)
  BY <1>4, <1>8 DEF Midnight, BecomesDue, caller
<1>9. CASE UNCHANGED vars
  BY <1>4, <1>9 DEF vars, caller
<1>10. QED
  BY <1>4, <1>5, <1>6, <1>7, <1>8, <1>9 DEF Next

\* A row that is queued now.
LEMMA NewRowOut ==
  ASSUME TypeInv, Smooth, NEW c \in Callers, step[c] # "idle", NEW i \in Ids,
         NEW q \in Seq(Rows), Orderly(queue, q), Range(q) \subseteq Range(queue),
         queue' = Append(q, NewRow(c, i))
  PROVE  Orderly(queue, queue') /\ Prompt(queue')
<1> DEFINE r == NewRow(c, i)
<1>1. r \in Rows /\ r.age = 0 /\ r.due /\ (r.type = DELETED => r.priority = DeletedFirst)
  <2>1. r \in Rows
    BY NewRowType
  <2>2. r.age = 0 /\ r.due /\ r.type = ask[c].type /\ r.priority = ask[c].priority
    BY DEF NewRow
  <2>3. QED
    BY <2>1, <2>2 DEF Smooth, AsksInOrder
<1>2. queue' = Append(q, r)
  OBVIOUS
<1> HIDE DEF r
<1>3. Orderly(queue, queue')
  BY <1>1, <1>2, QueueType, OrderlyAppend
<1>4. Range(queue') \subseteq Range(q) \cup {r}
  <2>1. /\ DOMAIN queue' = 1..(Len(q) + 1) /\ DOMAIN q = 1..Len(q) /\ Len(q) \in Nat
        /\ \A n \in 1..Len(q) : queue'[n] = q[n]
        /\ queue'[Len(q) + 1] = r
    BY <1>2
  <2>2. \A n \in DOMAIN queue' : n \in 1..Len(q) \/ n = Len(q) + 1
    BY <2>1
  <2>3. QED
    BY <2>1, <2>2 DEF Range
<1>5. Prompt(queue')
  BY <1>1, <1>4 DEF Smooth, Prompt
<1>6. QED
  BY <1>3, <1>5

LEMMA CallerOut ==
  ASSUME TypeInv, Smooth, RaisesInTime, NEW c \in Callers, Caller(c)
  PROVE  Orderly(queue, queue') /\ Prompt(queue') /\ UNCHANGED <<worker, sent, expired>>
<1>1. UNCHANGED <<worker, sent, expired>>
  BY DEF Caller, ReadToClose, ReadToActivate, Close, Activate, Written, Enriched, Backfill, Asks,
     Look, Drop, Create, CreateConflicts, CreateThrows, Replace, Raise, CallerDies, logged, history
<1>2. Orderly(queue, queue)
  BY QueueType, OrderlySame
<1>3. CASE queue' = queue
  BY <1>1, <1>2, <1>3 DEF Smooth
<1>4. CASE Create(c)
  <2>1. NewId \in Ids
    BY <1>4, NewIdIsFree DEF Create
  <2>2. step[c] # "idle" /\ queue' = Append(queue, NewRow(c, NewId))
    BY <1>4 DEF Create
  <2>3. QED
    BY <1>1, <1>2, <2>1, <2>2, QueueType, NewRowOut
<1>5. CASE Replace(c) /\ queue' # queue
  <2> DEFINE q == Kept(queue, Range(queue) \ WithId(copy[c].id))
  <2>1. copy[c].id \in Ids /\ step[c] # "idle"
    BY <1>5, CopyType DEF Replace
  <2>2. queue' = Append(q, NewRow(c, copy[c].id))
    BY <1>5 DEF Replace
  <2>3. q \in Seq(Rows) /\ Range(q) \subseteq Range(queue) /\ Orderly(queue, q)
    BY QueueType, KeptRows, OrderlyKept
  <2> HIDE DEF q
  <2>4. QED
    BY <1>1, <2>1, <2>2, <2>3, NewRowOut
<1>6. CASE Raise(c)
  <2>1. /\ DOMAIN queue' = DOMAIN queue
        /\ \A n \in DOMAIN queue : queue'[n] =
             IF queue[n].id = copy[c].id /\ ask[c].priority < copy[c].priority
               THEN [queue[n] EXCEPT !.priority = ask[c].priority] ELSE queue[n]
        /\ step[c] # "idle" /\ copy[c].type = ask[c].type
    BY <1>6 DEF Raise, Turns
  <2>2. ASSUME NEW n \in DOMAIN queue
        PROVE  /\ queue'[n].id = queue[n].id /\ queue'[n].type = queue[n].type
               /\ queue'[n].age = queue[n].age /\ queue'[n].due = queue[n].due
               /\ \/ queue'[n].priority = queue[n].priority
                  \/ queue[n].id = copy[c].id /\ queue'[n].priority = ask[c].priority
    BY <2>1, QueueType DEF Rows
  <2>3. Orderly(queue, queue')
    BY <2>1, <2>2, QueueType, OrderlySame
  <2>4. ASSUME NEW n \in DOMAIN queue, queue[n].id = copy[c].id PROVE queue[n].type = ask[c].type
    BY <1>6, <2>1, <2>4 DEF RaisesInTime, WithId, Range
  <2>5. Prompt(queue')
    <3> SUFFICES ASSUME NEW n \in DOMAIN queue
                 PROVE  queue'[n].due /\ (queue'[n].type = DELETED => queue'[n].priority = DeletedFirst)
      BY <2>1 DEF Prompt, Range
    <3>1. queue[n].due /\ (queue[n].type = DELETED => queue[n].priority = DeletedFirst)
      BY DEF Smooth, Prompt, Range
    <3>2. ask[c].type = DELETED => ask[c].priority = DeletedFirst
      BY <2>1 DEF Smooth, AsksInOrder
    <3>3. QED
      BY <2>2, <2>4, <3>1, <3>2
  <2>6. QED
    BY <1>1, <2>3, <2>5
<1>7. CASE ~(Create(c) \/ Replace(c) \/ Raise(c))
  <2>1. queue' = queue
    BY <1>7 DEF Caller, ReadToClose, ReadToActivate, Close, Activate, Written, Enriched, Backfill,
       Asks, Look, Drop, CreateConflicts, CreateThrows, CallerDies
  <2>2. QED
    BY <1>3, <2>1
<1>8. QED
  BY <1>3, <1>4, <1>5, <1>6, <1>7

\* Mishaps are counted.
LEMMA WithoutMishap ==
  ASSUME TypeInv, [Next]_vars, mishaps' = 0
  PROVE  /\ mishaps = 0 /\ ~SendFails /\ ~QuotaExceeded /\ ~LogFails /\ ~Die
         /\ Midnight => phase = "idle" /\ PickBatch(Fresh) = <<>>
<1>1. mishaps \in Nat
  BY Constants DEF TypeInv, TypeOK
<1>2. ~Mishap
  BY <1>1 DEF Mishap
<1>3. mishaps' = mishaps \/ Mishap
  <2>1. ASSUME NEW c \in Callers, Caller(c) PROVE mishaps' = mishaps
    BY <2>1 DEF Caller, ReadToClose, ReadToActivate, Close, Activate, Written, Enriched, Backfill,
       Asks, Look, Drop, Create, CreateConflicts, CreateThrows, Replace, Raise, CallerDies, bounds
  <2>2. CASE Worker
    BY <2>2 DEF Worker, Pick, Match, Skip, Send, SendFails, QuotaExceeded, Log, LogFails, Done,
       Retry, Die, bounds
  <2>3. QED
    BY <2>1, <2>2 DEF Next, Hide, BecomesDue, Midnight, vars, bounds
<1>4. QED
  BY <1>2, <1>3 DEF SendFails, QuotaExceeded, LogFails, Die, Midnight

LEMMA OutInvNext ==
  ASSUME TypeInv, TypeInv', OutInv, BacklogFits, [Next]_vars, RaisesInTime
  PROVE  OutInv'
<1> SUFFICES ASSUME mishaps' = 0 PROVE Smooth' /\ OutInTime' /\ FloorIsKept'
  BY DEF OutInv
<1>1. /\ Smooth /\ OutInTime /\ FloorIsKept /\ ~SendFails /\ ~QuotaExceeded /\ ~LogFails /\ ~Die
      /\ Midnight => phase = "idle" /\ PickBatch(Fresh) = <<>>
  BY WithoutMishap DEF OutInv
<1>2. AsksInOrder'
  BY <1>1, AsksNext DEF Smooth
<1>3. ASSUME Orderly(queue, queue'), Prompt(queue'), UNCHANGED <<worker, sent, expired>>
      PROVE  Smooth' /\ OutInTime' /\ FloorIsKept'
  BY <1>1, <1>2, <1>3, OutWhileResting DEF Smooth, worker
<1>4. CASE UNCHANGED <<queue, worker, sent, expired>>
  <2>1. Orderly(queue, queue') /\ Prompt(queue')
    BY <1>1, <1>4, QueueType, OrderlySame DEF Smooth
  <2>2. QED
    BY <1>3, <1>4, <2>1
<1>5. ASSUME NEW c \in Callers, Caller(c) PROVE Smooth' /\ OutInTime' /\ FloorIsKept'
  BY <1>1, <1>3, <1>5, CallerOut
<1>6. ASSUME NEW s \in Slugs, Hide(s) PROVE Smooth' /\ OutInTime' /\ FloorIsKept'
  BY <1>4, <1>6 DEF Hide, logged, history
<1>7. CASE Pick
  <2>1. phase' # "retry"
    BY <1>7 DEF Pick
  <2>2. QED
    BY <1>1, <1>2, <1>7, <2>1, PickOut DEF Smooth
<1>8. CASE Match \/ Send
  <2>1. /\ UNCHANGED <<queue, items, sent, expired>>
        /\ phase # "done" /\ phase' # "done" /\ phase' # "retry"
    BY <1>8 DEF Match, Send, logged, history
  <2>2. QED
    BY <1>1, <1>2, <2>1, SameItemOut DEF Smooth
<1>9. CASE Log
  <2>1. UNCHANGED <<queue, items, expired>> /\ phase' # "retry"
    BY <1>9 DEF Log, history
  <2>2. QED
    BY <1>1, <1>2, <1>9, <2>1, LogOut DEF Smooth
<1>10. CASE Skip \/ Done
  <2>1. phase' # "retry" /\ expired' = expired
    BY <1>10 DEF Skip, Done, Finish, GoesOn, history
  <2>2. Apart(items') /\ Range(queue') \subseteq Range(queue) /\ OutInTime' /\ FloorIsKept'
    BY <1>1, <1>10, FinishOut
  <2>3. QED
    BY <1>1, <1>2, <2>1, <2>2 DEF Smooth, Prompt
<1>11. ~Retry
  BY <1>1 DEF Retry, Smooth
<1>12. CASE Midnight
  <2>1. phase' = phase /\ expired' = expired
    BY <1>12 DEF Midnight, worker, history
  <2>2. QED
    BY <1>1, <1>2, <1>12, <2>1, MidnightOut DEF Smooth
<1>13. \A n \in DOMAIN queue : ~BecomesDue(n)
  BY <1>1 DEF BecomesDue, Smooth, Prompt, Range
<1>14. CASE UNCHANGED vars
  BY <1>4, <1>14 DEF vars, logged, history
<1>15. QED
  BY <1>1, <1>5, <1>6, <1>7, <1>8, <1>9, <1>10, <1>11, <1>12, <1>13, <1>14 DEF Next, Worker

LEMMA OutInvInit == Init => OutInv
<1> SUFFICES ASSUME Init PROVE Smooth /\ OutInTime /\ FloorIsKept
  BY DEF OutInv
<1>1. queue = <<>> /\ items = <<>> /\ phase = "idle" /\ ~expired /\ \A c \in Callers : step[c] = "idle"
  BY DEF Init
<1>2. Range(queue) = {} /\ DOMAIN queue = {} /\ DOMAIN items = {}
  BY <1>1 DEF Range
<1>3. QED
  BY <1>1, <1>2 DEF Smooth, Prompt, Apart, AsksInOrder, OutInTime, FloorIsKept

(* No removal expires in the queue while sends do not fail, in whatever    *)
(* order jobs close, open and ask, provided that (BacklogFits) no more     *)
(* removals wait at once than the floor brings out in TTL - 1 days, and    *)
(* that (RaisesInTime) no caller writes the priority of an update to a row *)
(* that became a removal after it looked: that one is overtaken by every   *)
(* later removal.                                                          *)
THEOREM RemovalsOutrunExpiry == Spec /\ []BacklogFits /\ [][RaisesInTime]_vars => []RemovalsGoOut
<1>1. Init => TypeInv /\ OutInv
  BY TypeInvInit, OutInvInit
<1>2. TypeInv /\ OutInv /\ BacklogFits /\ [Next]_vars /\ [RaisesInTime]_vars => (TypeInv /\ OutInv)'
  <2> SUFFICES ASSUME TypeInv, OutInv, BacklogFits, [Next]_vars, [RaisesInTime]_vars
               PROVE  TypeInv' /\ OutInv'
    OBVIOUS
  <2>1. TypeInv'
    BY TypeInvNext
  <2>2. CASE UNCHANGED vars
    <3>1. ASSUME NEW c \in Callers, Raise(c) PROVE FALSE
      <4>1. step[c] = "write" /\ step'[c] = "idle"
        BY <3>1, FinishedFields DEF Raise
      <4>2. step' = step
        BY <2>2 DEF vars, caller
      <4>3. QED
        BY <4>1, <4>2
    <3>2. QED
      BY <2>1, <3>1, OutInvNext DEF RaisesInTime
  <2>3. CASE ~UNCHANGED vars
    BY <2>1, <2>3, OutInvNext
  <2>4. QED
    BY <2>2, <2>3
<1>3. TypeInv /\ OutInv => RemovalsGoOut
  <2> SUFFICES ASSUME TypeInv, OutInv, expired PROVE mishaps > 0
    BY DEF RemovalsGoOut
  <2>1. mishaps \in Nat /\ mishaps # 0
    BY Constants DEF TypeInv, TypeOK, OutInv, Smooth
  <2>2. QED
    BY <2>1
<1>4. QED
  BY <1>1, <1>2, <1>3, PTL DEF Spec

=============================================================================
