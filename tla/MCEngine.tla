------------------------------ MODULE MCEngine ------------------------------
(* Model checking of Engine.tla on small instances; see the .cfg files.     *)
EXTENDS EngineInv, TLC

Symmetry == Permutations(Keys) \cup Permutations(Values)

\* Without power losses no step reads the images of the unsynced files.
KillView == <<mem, ctl, now, aof, snap, ghost>>
============================================================================
