----------------------------- MODULE MCMemAccept -----------------------------
(* Two service processes as model values.                                  *)
EXTENDS MemAccept
=============================================================================
