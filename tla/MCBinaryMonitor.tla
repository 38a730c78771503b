-------------------------- MODULE MCBinaryMonitor --------------------------
EXTENDS BinaryMonitor
CONSTANTS Main, Other
MCJobsOf == [t \in Threads |-> IF t = Main THEN {"jsr", "jsrRecover", "jsrPlain", "watch", "step", "list"}
                                           ELSE {"peek", "text"}]
=============================================================================
