-------------------------- MODULE MCEmailDispatch --------------------------
(* Instances of EmailDispatch for TLC: one row or two per kind, two batches. *)
EXTENDS EmailDispatch, TLC

CONSTANTS welcome, feedback, second, offer1, offer2, purchase

MCKind == [d \in Dispatches |->
  CASE d = welcome -> "WELCOME"
    [] d = feedback -> "FEEDBACK_FIRST_USE"
    [] d = second -> "FEEDBACK_SECOND_CALL"
    [] d = purchase -> "PURCHASE_CONFIRMATION"
    [] OTHER -> "MOCK_INTERVIEW_OFFER"]

Together == {{"WELCOME", "FEEDBACK_FIRST_USE"}}

BatchSymmetry == Permutations(Workers)
=============================================================================
