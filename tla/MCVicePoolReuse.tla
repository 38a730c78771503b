-------------------------- MODULE MCVicePoolReuse --------------------------
(* Two processes of one thread each, on three ports; the second with         *)
(* reuse_existing.                                                           *)
EXTENDS VicePool, TLC

CONSTANTS m1, m2, t1, t2

PairMgrOf == (t1 :> m1) @@ (t2 :> m2)

One == (m1 :> TRUE) @@ (m2 :> FALSE)

Two == (m1 :> FALSE) @@ (m2 :> TRUE)
=============================================================================
