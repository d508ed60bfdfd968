--------------------------- MODULE MCGradingQueue ---------------------------
(***************************************************************************)
(* Small instances of GradingQueue: submission 1 is to a speaking test,    *)
(* and the two submissions are attempts at the same test by one user.      *)
(***************************************************************************)
EXTENDS GradingQueue

CONSTANTS w1, w2, p1, p2, pair

OneProcess == [w \in Workers |-> p1]
TwoProcesses == [w \in Workers |-> IF w = w1 THEN p1 ELSE p2]
SamePair == [s \in Submissions |-> pair]

=============================================================================
