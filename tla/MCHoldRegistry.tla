--------------------------- MODULE MCHoldRegistry ---------------------------
(* One instance that never nests and two that may, in two threads.          *)
EXTENDS HoldRegistry
=============================================================================
