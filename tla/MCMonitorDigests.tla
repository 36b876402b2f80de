-------------------------- MODULE MCMonitorDigests --------------------------
(***************************************************************************)
(* The instance of MonitorDigests that TLC checks: two recommendations and *)
(* two digests of one user, two requests of the administration and one     *)
(* event at a time.                                                        *)
(***************************************************************************)
EXTENDS MonitorDigests

CONSTANTS a1, a2, h1

MCJobs == 1..2
MCAdmins == {a1, a2}
MCHooks == {h1}
=============================================================================
