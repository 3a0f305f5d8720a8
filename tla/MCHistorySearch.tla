-------------------------- MODULE MCHistorySearch --------------------------
(* Instances of HistorySearch for TLC. *)
EXTENDS HistorySearch, TLC

Symmetry == Permutations(States)
=============================================================================
