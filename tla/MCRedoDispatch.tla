--------------------------- MODULE MCRedoDispatch ---------------------------
(* The redo on a small instance; all constants are plain values.           *)
EXTENDS RedoDispatch
=============================================================================
