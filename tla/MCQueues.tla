------------------------------ MODULE MCQueues ------------------------------
(* Model checking of Queues.tla on small instances; see the .cfg files.    *)
EXTENDS Queues, TLC

Symmetry == Permutations(Names) \cup Permutations(Readers)
============================================================================
