------------------------------ MODULE MCSearch ------------------------------
(* Search on small instances, with the symmetry of pushes and candidates.  *)
EXTENDS Search, TLC

Symmetry == Permutations(Candidates) \cup Permutations(Pushes)
=============================================================================
