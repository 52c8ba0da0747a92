---------------------------- MODULE MCOrderSched ----------------------------
(* The scheduler on a small instance; all constants are plain numbers.     *)
EXTENDS OrderSched
=============================================================================
