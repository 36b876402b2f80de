-------------------------- MODULE MCProductUpdates --------------------------
(***************************************************************************)
(* The instance of ProductUpdates that TLC checks: one request of the      *)
(* administration at a time, two recipients, two contents.                 *)
(***************************************************************************)
EXTENDS ProductUpdates

CONSTANTS r1, r2, c1, c2, a1, h1, none

MCRecipients == {r1, r2}
MCContents == {c1, c2}
MCAdmins == {a1}
MCHooks == {h1}
=============================================================================
