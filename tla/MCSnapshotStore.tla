-------------------------- MODULE MCSnapshotStore --------------------------
(* Symmetry of the snapshot store for TLC. *)
EXTENDS SnapshotStore, TLC

Symmetry == Permutations(Contents) \cup Permutations(Processes)
=============================================================================
