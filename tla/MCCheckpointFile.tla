--------------------------- MODULE MCCheckpointFile ---------------------------
(* Model checking of CheckpointFile: writers are interchangeable. *)
EXTENDS CheckpointFile, TLC

CONSTANT MaxWrites   \* bound: how many writes a behaviour begins

Symmetry == Permutations(Writer)

FewWrites == last <= MaxWrites
=============================================================================
