--------------------------- MODULE MCCustomTests ---------------------------
(***************************************************************************)
(* Small instances of CustomTests, with interchangeable ids, contents and  *)
(* requests.                                                               *)
(***************************************************************************)
EXTENDS CustomTests, TLC

Symmetry == Permutations(Tests) \union Permutations(Contents) \union Permutations(Requests)

=============================================================================
