----------------------------- MODULE MCService ------------------------------
(* Model checking of Service.tla on small instances; see the .cfg files.   *)
EXTENDS Service, TLC

CONSTANTS p1, p2

\* Both processes with the same two files.
SameFiles == [p \in Procs |-> <<"aof", "snapshot">>]

\* Two journals, one snapshot.
SharedSnapshot == [p \in Procs |-> <<IF p = p1 THEN "aof1" ELSE "aof2", "snapshot">>]
============================================================================
