---------------------------- MODULE Announcement ----------------------------
(***************************************************************************)
(* What a product update campaign promises: one content, tested before it  *)
(* was chosen, reaches each recipient at most once, and once the campaign  *)
(* is over at most the message already on its way still goes out.          *)
(***************************************************************************)
EXTENDS Naturals, Sequences

CONSTANTS Recipients, Contents, NoContent

VARIABLES
  tested,  \* contents somebody received as a test
  chosen,  \* the content of the campaign, once it started
  open,    \* the campaign is under way
  inbox,   \* the messages each recipient got
  late     \* messages that went out after the campaign was over

vars == <<tested, chosen, open, inbox, late>>

Whole(c) == [subject |-> c, body |-> c]

Init ==
  /\ tested = {} /\ chosen = NoContent /\ open = FALSE /\ late = 0
  /\ inbox = [r \in Recipients |-> <<>>]

Test(c) ==
  /\ tested' = tested \cup {c}
  /\ UNCHANGED <<chosen, open, inbox, late>>

Open(c) ==
  /\ chosen = NoContent
  /\ c \in tested
  /\ chosen' = c /\ open' = TRUE
  /\ UNCHANGED <<tested, inbox, late>>

Deliver(r) ==
  /\ chosen # NoContent
  /\ inbox[r] = <<>>
  /\ open \/ late = 0
  /\ inbox' = [inbox EXCEPT ![r] = <<Whole(chosen)>>]
  /\ late' = IF open THEN late ELSE late + 1
  /\ UNCHANGED <<tested, chosen, open>>

Close ==
  /\ open
  /\ open' = FALSE
  /\ UNCHANGED <<tested, chosen, inbox, late>>

Next ==
  \/ \E c \in Contents : Test(c) \/ Open(c)
  \/ \E r \in Recipients : Deliver(r)
  \/ Close

Spec == Init /\ [][Next]_vars
=============================================================================
