--------------------------- MODULE MCCvProcessing ---------------------------
(* Instances of CvProcessing for TLC: requests of one text or of two. *)
EXTENDS CvProcessing, TLC

CONSTANTS s1, r1

Ask(s, i, r) == [source |-> s, intent |-> i, resume |-> r]

\* An analysis, and a request for this text to become the Master.
MCRequests == {Ask(s1, "NONE", NoResume), Ask(s1, "PROMOTE_EXPLICIT", r1)}

\* An upload, and set-primary on it.
MasterRequests == {Ask(s1, "PROMOTE_IF_FIRST", r1), Ask(s1, "PROMOTE_EXPLICIT", r1)}

CallerSymmetry == Permutations(Callers)
=============================================================================
