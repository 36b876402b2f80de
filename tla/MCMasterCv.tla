----------------------------- MODULE MCMasterCv -----------------------------
(***************************************************************************)
(* The instance of MasterCv that TLC checks: two texts, three resumes, and *)
(* two requests beside the workers of the texts' jobs.                     *)
(***************************************************************************)
EXTENDS MasterCv, TLC

CONSTANTS t1, t2, r1, r2, r3, c1, c2

MCTexts == {t1, t2}
MCResumes == {r1, r2, r3}
MCCallers == {c1, c2}
MCSymmetry == Permutations(MCTexts) \cup Permutations(MCResumes)
              \cup Permutations(MCCallers)
=============================================================================
