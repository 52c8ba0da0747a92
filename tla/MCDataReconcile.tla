--------------------------- MODULE MCDataReconcile ---------------------------
(* DataReconcile with commands that are interchangeable but for ccmdinfo.  *)
EXTENDS DataReconcile
=============================================================================
