---------------------------- MODULE PortLockFile ----------------------------
(* backends/port_lock.py: the cross-process lock on one TCP port.           *)
(*                                                                          *)
(* Any number of processes run PortLock.acquire(), PortLock.release() and   *)
(* PortLock.cleanup_stale() on the same lockfile, one system call at a      *)
(* time, and may die between any two of them.  The PID in the file is not   *)
(* modelled: acquire() never reads it and cleanup_stale() unlinks whatever  *)
(* it says.                                                                 *)

EXTENDS Naturals, Flock

CONSTANT MaxAttempts            \* the range() of acquire(): 2

ASSUME AttemptsAssumption == MaxAttempts \in Nat \ {0}

VARIABLES pc,                   \* pc[p]: the system call p does next
          attempt               \* attempt[p]: the pass of acquire()'s loop

vars == <<path, fd, owner, pc, attempt>>

Steps == {"idle", "open", "flock", "verify", "held",
          "sweepFlock", "sweepVerify", "sweepUnlink", "close"}

TypeOK == /\ path \in Inodes \cup {NoInode}
          /\ fd \in [Procs -> Inodes \cup {NoInode}]
          /\ owner \in [Inodes -> Procs \cup {NoProc}]
          /\ pc \in [Procs -> Steps]
          /\ attempt \in [Procs -> 1 .. MaxAttempts]

Init == /\ FlockInit
        /\ pc = [p \in Procs |-> "idle"]
        /\ attempt = [p \in Procs |-> 1]

Goto(p, step) == pc' = [pc EXCEPT ![p] = step]

-----------------------------------------------------------------------------
(* PortLock.acquire()                                                       *)

Acquire(p) == /\ pc[p] = "idle"
              /\ Goto(p, "open")
              /\ attempt' = [attempt EXCEPT ![p] = 1]
              /\ UNCHANGED flockVars

Open(p) == /\ pc[p] = "open"
           /\ OpenCreate(p)
           /\ Goto(p, "flock")
           /\ UNCHANGED attempt

TryFlock(p) == /\ pc[p] = "flock"
               /\ \/ LockEx(p) /\ Goto(p, "verify")
                  \/ owner[fd[p]] # NoProc /\ CloseFd(p) /\ Goto(p, "idle")
               /\ UNCHANGED attempt

(* Mutant: acquire() trusts flock() alone.                                  *)
VerifyNothing(p) == /\ pc[p] = "verify"
                    /\ Goto(p, "held")
                    /\ UNCHANGED <<flockVars, attempt>>

(* The recheck after flock(): a lock on an inode that has lost its name     *)
(* excludes nobody, so it is dropped and the loop runs once more.           *)
Verify(p) == /\ pc[p] = "verify"
             /\ \/ /\ OnPath(p)
                   /\ Goto(p, "held")
                   /\ UNCHANGED <<flockVars, attempt>>
                \/ /\ ~OnPath(p)
                   /\ CloseFd(p)
                   /\ IF attempt[p] < MaxAttempts
                      THEN /\ Goto(p, "open")
                           /\ attempt' = [attempt EXCEPT ![p] = @ + 1]
                      ELSE Goto(p, "idle") /\ UNCHANGED attempt

(* PortLock.release(): the file stays.                                      *)
Release(p) == /\ pc[p] = "held"
              /\ CloseFd(p)
              /\ Goto(p, "idle")
              /\ UNCHANGED attempt

-----------------------------------------------------------------------------
(* PortLock.cleanup_stale(), for this one file                              *)

SweepOpen(p) == /\ pc[p] = "idle"
                /\ OpenExisting(p)
                /\ Goto(p, "sweepFlock")
                /\ UNCHANGED attempt

SweepFlock(p) == /\ pc[p] = "sweepFlock"
                 /\ \/ LockEx(p) /\ Goto(p, "sweepVerify")
                    \/ owner[fd[p]] # NoProc /\ CloseFd(p) /\ Goto(p, "idle")
                 /\ UNCHANGED attempt

(* Mutant: the sweep trusts flock() alone, as DeviceLock's sweep does.      *)
SweepVerifyNothing(p) == /\ pc[p] = "sweepVerify"
                         /\ Goto(p, "sweepUnlink")
                         /\ UNCHANGED <<flockVars, attempt>>

(* The sweep's own recheck: is the inode it locked still the named file?    *)
SweepVerify(p) == /\ pc[p] = "sweepVerify"
                  /\ Goto(p, IF OnPath(p) THEN "sweepUnlink" ELSE "close")
                  /\ UNCHANGED <<flockVars, attempt>>

SweepUnlink(p) == /\ pc[p] = "sweepUnlink"
                  /\ Unlink
                  /\ Goto(p, "close")
                  /\ UNCHANGED attempt

SweepClose(p) == /\ pc[p] = "close"
                 /\ CloseFd(p)
                 /\ Goto(p, "idle")
                 /\ UNCHANGED attempt

-----------------------------------------------------------------------------
(* The process dies: the kernel closes its files, the lockfile stays.  The  *)
(* actor that starts over under the same name is another process.           *)
Crash(p) == /\ pc[p] # "idle"
            /\ CloseFd(p)
            /\ Goto(p, "idle")
            /\ UNCHANGED attempt

Next == \E p \in Procs : \/ Acquire(p) \/ Open(p) \/ TryFlock(p)
                         \/ Verify(p) \/ Release(p)
                         \/ SweepOpen(p) \/ SweepFlock(p) \/ SweepVerify(p)
                         \/ SweepUnlink(p) \/ SweepClose(p) \/ Crash(p)

Spec == Init /\ [][Next]_vars

-----------------------------------------------------------------------------
(* Two processes never both hold the port (acquire() returned True and      *)
(* release() was not called), whatever sweeps and crashes happen around it. *)
MutualExclusion ==
    \A p, q \in Procs : pc[p] = "held" /\ pc[q] = "held" => p = q

(* A sweep removes the file it has locked and rechecked, never one that a   *)
(* process holds or has just verified: no step changes what the name leads  *)
(* to while somebody holds the port.                                        *)
SweepSparesHolder ==
    [][path' # path => \A p \in Procs : pc[p] # "held"]_vars

(* The lock implements the abstract mutex.                                  *)
Holder == IF \E p \in Procs : pc[p] = "held"
          THEN CHOOSE p \in Procs : pc[p] = "held"
          ELSE NoProc

Abstract == INSTANCE Mutex WITH holder <- Holder

ImplementsMutex == Abstract!Spec

-----------------------------------------------------------------------------
(* The inductive invariant: a flock is held through an open file, and a     *)
(* process past its recheck owns the very inode the name leads to, which    *)
(* only its owner may unlink.                                               *)
LocksAreOpen == \A i \in Inodes : \A p \in Procs : owner[i] = p => fd[p] = i

Locked == {"verify", "held", "sweepVerify", "sweepUnlink"}

LockedOwns == \A p \in Procs :
    /\ pc[p] \in Locked => fd[p] \in Inodes /\ owner[fd[p]] = p
    /\ pc[p] \in {"flock", "sweepFlock"} => fd[p] \in Inodes
    /\ pc[p] \in {"idle", "open"} => fd[p] = NoInode

RecheckedOnPath ==
    \A p \in Procs : pc[p] \in {"held", "sweepUnlink"} => OnPath(p)

IInv == TypeOK /\ LocksAreOpen /\ LockedOwns /\ RecheckedOnPath
=============================================================================
