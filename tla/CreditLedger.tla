---------------------------- MODULE CreditLedger ----------------------------
(***************************************************************************)
(* What the purchases promise about credits, whatever happens to requests, *)
(* notifications and statuses: a purchase is credited once with what one   *)
(* of its offers grants, reversed at most once and by no more than that,   *)
(* and a CV costs one credit, once.                                        *)
(***************************************************************************)
EXTENDS Integers

CONSTANTS Users, Purchases, Adaptations, Owner, Origin, Offers, Credits,
          NoAdaptation, InitialBalance, AdminCredits

VARIABLES
  granted,   \* purchases that were credited
  reversed,  \* purchases whose credits were taken back
  unlocked,  \* CVs
  balance

vars == <<granted, reversed, unlocked, balance>>

Init ==
  /\ granted = {} /\ reversed = {} /\ unlocked = {}
  /\ balance = [u \in Users |-> InitialBalance]

\* A credited purchase may spend the first of its credits on its own CV.
Grant(p) ==
  /\ p \notin granted
  /\ granted' = granted \cup {p}
  /\ \E o \in Offers :
       \/ /\ balance' = [balance EXCEPT ![Owner[p]] = @ + Credits[o]]
          /\ UNCHANGED unlocked
       \/ /\ Origin[p] \in Adaptations \ unlocked
          /\ unlocked' = unlocked \cup {Origin[p]}
          /\ balance' = [balance EXCEPT ![Owner[p]] = @ + Credits[o] - 1]
  /\ UNCHANGED reversed

\* A refund takes back at most what the purchase granted.
Reverse(p) ==
  /\ p \in granted \ reversed
  /\ reversed' = reversed \cup {p}
  /\ \E o \in Offers : balance[Owner[p]] - balance'[Owner[p]] <= Credits[o]
  /\ \A u \in Users \ {Owner[p]} : balance'[u] = balance[u]
  /\ UNCHANGED <<granted, unlocked>>

Unlock(a) ==
  /\ a \notin unlocked
  /\ unlocked' = unlocked \cup {a}
  /\ balance' = [balance EXCEPT ![Owner[a]] = @ - 1]
  /\ UNCHANGED <<granted, reversed>>

SetCredits(u, n) ==
  /\ balance' = [balance EXCEPT ![u] = n]
  /\ UNCHANGED <<granted, reversed, unlocked>>

Next ==
  \/ \E p \in Purchases : Grant(p) \/ Reverse(p)
  \/ \E a \in Adaptations : Unlock(a)
  \/ \E u \in Users, n \in AdminCredits : SetCredits(u, n)

Spec == Init /\ [][Next]_vars
=============================================================================
