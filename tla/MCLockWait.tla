----------------------------- MODULE MCLockWait -----------------------------
(* The defaults of the code at one tick per heartbeat (15 s), with a chain  *)
(* limit of one.  A waiter exceeds it behind first -> second -> first, and  *)
(* first and second can each wait for a lock of their own.                  *)
EXTENDS LockWait

CONSTANTS first, second, third

MCProcs    == {first, second, third}
MCMaxHolds == [p \in MCProcs |-> IF p = third THEN 1 ELSE 2]
=============================================================================
