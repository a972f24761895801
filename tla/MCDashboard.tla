---------------------------- MODULE MCDashboard ----------------------------
(* Model checking of Dashboard.tla on a small instance; see the .cfg file. *)
EXTENDS Dashboard, TLC
============================================================================
