---------------------------- MODULE MCCheckpoint ----------------------------
(* Checkpoint for TLC, with the symmetry that is sound for invariants. *)
EXTENDS Checkpoint, TLC

\* Event log names, positions and callers are interchangeable.
Symmetry ==
  Permutations(Names) \cup Permutations(Positions) \cup Permutations(Callers)
=============================================================================
