----------------------------- MODULE MCReports -----------------------------
(***************************************************************************)
(* Reports for TLC: two reports, two requests at a time, and API processes *)
(* that follow one another.                                                *)
(***************************************************************************)
EXTENDS Reports, TLC

Symmetry == Permutations(Threads) \cup Permutations(Reports)
=============================================================================
