-------------------------- MODULE MCRedoAssignLoop --------------------------
(* Batches of up to five records of two numbers and none, groups of three.   *)
EXTENDS RedoAssignLoop
=============================================================================
