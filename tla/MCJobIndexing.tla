---------------------------- MODULE MCJobIndexing ----------------------------
(***************************************************************************)
(* The instance of JobIndexing that TLC checks: two jobs that open and     *)
(* close, one of them known to Google, two callers, a quota of two with    *)
(* one kept for removals.                                                  *)
(***************************************************************************)
EXTENDS JobIndexing, TLC

CONSTANTS s1, s2, e1, e2

MCSlugs == {s1, s2}
MCCallers == {e1, e2}
MCNotified == {s2}
MCSymmetry == Permutations(MCCallers)
=============================================================================
