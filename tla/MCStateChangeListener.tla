------------------------ MODULE MCStateChangeListener ------------------------
(* Instances of StateChangeListener for TLC. *)
EXTENDS StateChangeListener, TLC

Symmetry == Permutations(States)
=============================================================================
