------------------------------- MODULE MCCharts -------------------------------
(* An instance of Charts for TLC.                                          *)
EXTENDS Charts, TLC

Symmetry == Permutations(Screens) \cup Permutations(Requests) \cup Permutations(Photos)
=============================================================================
