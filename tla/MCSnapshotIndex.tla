-------------------------- MODULE MCSnapshotIndex --------------------------
(* Instances of SnapshotIndex for TLC: pushes and candidates are           *)
(* interchangeable, nodes are not (one has a public key).                  *)
EXTENDS SnapshotIndex, TLC

Symmetry == Permutations(Candidates) \cup Permutations(Pushes)
=============================================================================
