------------------------------- MODULE Mutex -------------------------------
(* What a lock promises its callers, with no files in it: at most one       *)
(* process has the resource, and it changes hands only through "free".      *)

CONSTANTS Procs, NoProc

VARIABLE holder

Init == holder = NoProc

Take(p) == holder = NoProc /\ holder' = p
Drop(p) == holder = p /\ holder' = NoProc

Next == \E p \in Procs : Take(p) \/ Drop(p)

Spec == Init /\ [][Next]_holder
=============================================================================
