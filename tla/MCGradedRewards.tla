-------------------------- MODULE MCGradedRewards --------------------------
(***************************************************************************)
(* Small instances of GradedRewards: one essay, and two attempts at one    *)
(* reading test, all of one user.                                          *)
(***************************************************************************)
EXTENDS GradedRewards

CONSTANTS essay, first, again, user, task, reading

User == [j \in Jobs |-> user]
Test == [j \in Jobs |-> IF j = essay THEN task ELSE reading]
Gain == [t \in {task, reading} |-> IF t = task THEN 60 ELSE 63]

Right == [quoted |-> TRUE, issue |-> "spelling"]
Lists == {<<[Right EXCEPT !.quoted = FALSE], Right, [Right EXCEPT !.issue = "style"], Right>>}

=============================================================================
