-------------------------- MODULE MCPlanPurchases --------------------------
(* Instances of PlanPurchases for TLC.                                     *)
EXTENDS PlanPurchases, TLC

CONSTANTS u1, p1, p2, a1, a2, full, single, coupon

\* One user owns everything: purchases of different users share no row.
MCOwner == [x \in Purchases \cup Adaptations |-> u1]
\* p1 is bought to unlock a1, any other purchase to buy credits.
MCOrigin == [p \in Purchases |-> IF p = p1 /\ a1 \in Adaptations THEN a1 ELSE NoAdaptation]
MCPrice == [o \in Offers |-> IF o = coupon THEN 1 ELSE 2]
MCCredits == [o \in Offers |-> IF o = full THEN 2 ELSE 1]

\* Where no purchase is bought for a CV (p1 is not among them), CVs are alike.
MCSymmetry == Permutations(Requests) \cup Permutations(Adaptations)

\* The bound on behaviors: with the Brick, a purchase that was written over
\* may be paid and credited again for ever.
MCNothingOverwritten == overwritten = {}
=============================================================================
