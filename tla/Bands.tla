------------------------------- MODULE Bands -------------------------------
(***************************************************************************)
(* The overall band, which the writing and the speaking graders compute    *)
(* themselves from the bands of the criteria.                              *)
(***************************************************************************)
EXTENDS Integers

\* The overall band, counted in half bands, of n criteria that add up to sum.
IELTSOverall(sum, n) ==
    LET rest == sum % n
    IN  2 * (sum \div n) + (IF 4 * rest < n THEN 0 ELSE IF 4 * rest < 3 * n THEN 1 ELSE 2)

=============================================================================
