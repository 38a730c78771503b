----------------------------- MODULE MCVicePool -----------------------------
(* Processes that share the machine's ports, in three configurations, one of *)
(* which is drawn once.  In "pool" a manager with two threads and another    *)
(* with one share two ports, one of which somebody else may take.  In        *)
(* "close" a manager with two threads and three ports shuts down.  In        *)
(* "adopt" each of two managers has one thread and there are three ports;    *)
(* the first asks for text monitors, the second reuses what listens and      *)
(* shuts down, and somebody else may run an emulator on the first port.      *)
(* "pool" has VicePool's variables, the other two have their own.            *)
EXTENDS VicePool, TLC

CONSTANTS m1, m2, t1, t2, t3, a1, a2

MCMgrOf == (t1 :> m1) @@ (t2 :> m1) @@ (t3 :> m2)

Never == (m1 :> FALSE) @@ (m2 :> FALSE)

VARIABLES config, allocated2, listener2, flock2, emu2, pc2, job2, listed2,
          closing2, misfreed2

vars2 == <<allocated2, listener2, flock2, emu2, pc2, job2, listed2, closing2,
           misfreed2>>

C == INSTANCE VicePool WITH
    Threads <- {t1, t2}, MgrOf <- (t1 :> m1) @@ (t2 :> m1), LastPort <- 3,
    OutsiderPorts <- {}, Closers <- {m1},
    allocated <- allocated2, listener <- listener2, flock <- flock2,
    emu <- emu2, pc <- pc2, job <- job2, listed <- listed2,
    closing <- closing2, misfreed <- misfreed2

A == INSTANCE VicePool WITH
    Threads <- {a1, a2}, MgrOf <- (a1 :> m1) @@ (a2 :> m2), LastPort <- 3,
    OutsiderPorts <- {1}, Closers <- {m2},
    ReuseExisting <- (m1 :> FALSE) @@ (m2 :> TRUE),
    EnableTextMonitor <- (m1 :> TRUE) @@ (m2 :> FALSE),
    allocated <- allocated2, listener <- listener2, flock <- flock2,
    emu <- emu2, pc <- pc2, job <- job2, listed <- listed2,
    closing <- closing2, misfreed <- misfreed2

(* The variables of a configuration that was not drawn stand still.         *)
RunInit == /\ Init
           /\ \/ config \in {"pool", "close"} /\ C!Init
              \/ config = "adopt" /\ A!Init

RunNext == /\ UNCHANGED config
           /\ \/ config = "pool" /\ Next /\ UNCHANGED vars2
              \/ config = "adopt" /\ A!Next /\ UNCHANGED vars
              \/ config = "close" /\ C!Next /\ UNCHANGED vars

RunSpec == RunInit /\ [][RunNext]_<<vars, vars2, config>>

Symmetry == Permutations({t1, t2})

-----------------------------------------------------------------------------
\* The inductive invariant of VicePool holds in each configuration: with it a
\* launched instance talks to no other live emulator than its own.  And what
\* the run checks of "pool" by name holds of the other two.
PoolsAreSound ==
  /\ config = "pool" => IInv
  /\ config = "close" => C!IInv /\ C!LaunchIsLocked /\ C!NothingLeaks
  /\ config = "adopt" => A!IInv /\ A!LaunchIsLocked /\ A!NothingLeaks
=============================================================================
