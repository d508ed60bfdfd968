--------------------------- MODULE MCResultPages ---------------------------
(***************************************************************************)
(* Small instances of ResultPages.                                         *)
(***************************************************************************)
EXTENDS ResultPages

=============================================================================
