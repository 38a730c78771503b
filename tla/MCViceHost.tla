----------------------------- MODULE MCViceHost -----------------------------
(* What VICE processes share on one host, one part at a time: `subject` is   *)
(* drawn once, and only that part moves.  "port" is the lock file of a port: *)
(* two of three processes can keep an unlinked inode open while the third    *)
(* makes a new one, so three inodes are enough.  "process" is the life of a  *)
(* launched x64sc and its watchdog: one object, and two process ids for four *)
(* births (a sudo wrapper, the x64sc under it, and two who reuse their ids). *)
EXTENDS PortLockFile

CONSTANTS Emulators, Pids, NoPid, MaxBirths

VARIABLES subject,
          table, births, launcher, child, childEnds, childKnows, childLive,
          guard, live, dogs, phase, proc, sudo, wfd, rootPid, end,
          pipe, dog, target, kept, warned, struck

V == INSTANCE ViceProcess

ASSUME HostAssumption == V!PidsAssumption

process == <<table, births, launcher, child, childEnds, childKnows, childLive, guard, live,
             dogs, phase, proc, sudo, wfd, rootPid, end, pipe, dog, target, kept, warned,
             struck>>

-----------------------------------------------------------------------------
RunInit ==
  /\ Init /\ V!Init
  /\ subject \in {"port"} \cup (IF path = NoInode THEN {"process"} ELSE {})

\* The process part may come to rest: no births are left, and no calls.
RunNext ==
  \/ subject = "port" /\ Next /\ UNCHANGED <<subject, process>>
  \/ subject = "process" /\ V!Next /\ UNCHANGED <<subject, vars>>
  \/ subject = "process" /\ UNCHANGED <<subject, vars, process>>

RunSpec == RunInit /\ [][RunNext]_<<subject, vars, process>> /\ V!Fairness

-----------------------------------------------------------------------------
\* A signal that the launcher did not send itself reaches only its own x64sc,
\* armed and not disarmed, and only when it is dead (ViceProcess).
OnlyOrphansAreStruck == V!OnlyOrphansAreStruck

\* When stop() has returned, an x64sc that still runs is named (ViceProcess).
SurvivorsAreNamed == V!SurvivorsAreNamed

\* An armed x64sc does not outlive a launcher that was killed (ViceProcess).
NoOrphan == V!NoOrphan
=============================================================================
