--------------------------- MODULE DeviceLockFile ---------------------------
(* backends/device_lock.py, the lockfile side of DeviceLock: the sweep that *)
(* opens every acquire(), the single attempts of its loop, release(), and   *)
(* foreign_holder(), which any process may ask at any time.                 *)
(*                                                                          *)
(* It differs from PortLockFile in three ways that matter: the sweep does   *)
(* not recheck the inode it locked before it unlinks the name; the record   *)
(* in the file is read by others, so when it is written matters; and a      *)
(* probe takes the flock too, shared, for a moment.  What happens between   *)
(* the attempts (deadlines, heartbeats) is in LockWait, and the in-process  *)
(* registry in HoldRegistry.                                                *)

EXTENDS Naturals, Flock

CONSTANT MaxAttempts            \* the range() of _try_acquire_once(): 2

ASSUME AttemptsAssumption == MaxAttempts \in Nat \ {0}

VARIABLES pc,                   \* pc[p]: the system call p does next
          attempt,              \* attempt[p]: the pass of the loop
          readers,              \* readers[i]: who holds LOCK_SH on inode i
          body,                 \* body[i]: the PID in the file, or none
          report,               \* report[p]: what foreign_holder() returned
          used,                 \* history: used[p], see Using
          misfired              \* history: a sweep unlinked a file that was
                                \* not the one it had locked

vars == <<path, fd, owner, pc, attempt, readers, body, report, used, misfired>>

(* The steps at which p owns the flock to use the device, or is about to.   *)
InUse    == {"held", "handover"}
Acquired == {"claim", "verify"} \cup InUse
Probing  == {"probeFlock", "probeUnlock", "probeRead", "reported"}
Steps    == {"idle", "sweepFlock", "sweepUnlink", "sweepClose",
             "open", "flock", "poll"} \cup Acquired \cup Probing

TypeOK == /\ path \in Inodes \cup {NoInode}
          /\ fd \in [Procs -> Inodes \cup {NoInode}]
          /\ owner \in [Inodes -> Procs \cup {NoProc}]
          /\ pc \in [Procs -> Steps]
          /\ attempt \in [Procs -> 1 .. MaxAttempts]
          /\ readers \in [Inodes -> SUBSET Procs]
          /\ body \in [Inodes -> Procs \cup {NoProc}]
          /\ report \in [Procs -> Procs \cup {NoProc}]
          /\ used \in [Procs -> BOOLEAN]
          /\ misfired \in BOOLEAN

Init == /\ FlockInit
        /\ pc = [p \in Procs |-> "idle"]
        /\ attempt = [p \in Procs |-> 1]
        /\ readers = [i \in Inodes |-> {}]
        /\ body = [i \in Inodes |-> NoProc]
        /\ report = [p \in Procs |-> NoProc]
        /\ used = [p \in Procs |-> FALSE]
        /\ misfired = FALSE

Goto(p, step) == pc' = [pc EXCEPT ![p] = step]

probeVars == <<readers, report, used>>

(* History: while p's foreign_holder() runs, used[p] says whether an         *)
(* acquirer has had the flock, for however short a time, since it began.    *)
Using == used' = [p \in Procs |-> used[p] \/ pc[p] \in Probing]

(* LOCK_EX is refused by a shared lock as well as by an exclusive one.      *)
Free(i) == owner[i] = NoProc /\ readers[i] = {}

-----------------------------------------------------------------------------
(* acquire(), for a device nobody else in this process holds: first         *)
(* cleanup_stale(), whose glob finds the file or does not.                  *)

Acquire(p) == /\ pc[p] = "idle"
              /\ \/ OpenExisting(p) /\ Goto(p, "sweepFlock")
                    /\ UNCHANGED attempt
                 \/ /\ path = NoInode
                    /\ Goto(p, "open")
                    /\ attempt' = [attempt EXCEPT ![p] = 1]
                    /\ UNCHANGED flockVars
              /\ UNCHANGED <<body, misfired, probeVars>>

SweepFlock(p) == /\ pc[p] = "sweepFlock"
                 /\ \/ /\ Free(fd[p])
                       /\ LockEx(p)
                       /\ Goto(p, "sweepUnlink")
                       /\ UNCHANGED attempt
                    \/ /\ ~Free(fd[p])
                       /\ CloseFd(p)
                       /\ Goto(p, "open")
                       /\ attempt' = [attempt EXCEPT ![p] = 1]
                 /\ UNCHANGED <<body, misfired, probeVars>>

(* path.unlink() goes by name.  The flock says that nobody holds the inode  *)
(* this sweep opened; it says nothing of the inode the name leads to now.   *)
SweepUnlink(p) == /\ pc[p] = "sweepUnlink"
                  /\ Unlink
                  /\ misfired' = (misfired \/ (path # NoInode /\ ~OnPath(p)))
                  /\ Goto(p, "sweepClose")
                  /\ UNCHANGED <<attempt, body, probeVars>>

SweepClose(p) == /\ pc[p] = "sweepClose"
                 /\ CloseFd(p)
                 /\ Goto(p, "open")
                 /\ attempt' = [attempt EXCEPT ![p] = 1]
                 /\ UNCHANGED <<body, misfired, probeVars>>

-----------------------------------------------------------------------------
(* _try_acquire_once()                                                      *)

Open(p) == /\ pc[p] = "open"
           /\ OpenCreate(p)
           /\ body' = IF path = NoInode THEN [body EXCEPT ![path'] = NoProc]
                                        ELSE body
           /\ Goto(p, "flock")
           /\ UNCHANGED <<attempt, misfired, probeVars>>

TryFlock(p) == /\ pc[p] = "flock"
               /\ \/ Free(fd[p]) /\ LockEx(p) /\ Goto(p, "claim") /\ Using
                  \/ ~Free(fd[p]) /\ CloseFd(p) /\ Goto(p, "poll")
                     /\ UNCHANGED used
               /\ UNCHANGED <<attempt, body, misfired, readers, report>>

(* Mutant: the identity is left to be written later.                        *)
ClaimNothing(p) == /\ pc[p] = "claim"
                   /\ Goto(p, "verify")
                   /\ UNCHANGED <<flockVars, attempt, body, misfired, probeVars>>

(* _write_metadata(): one pwrite of a padded record.                        *)
Claim(p) == /\ pc[p] = "claim"
            /\ body' = [body EXCEPT ![fd[p]] = p]
            /\ Goto(p, "verify")
            /\ UNCHANGED <<flockVars, attempt, misfired, probeVars>>

(* Mutant: the flock is taken to be enough.                                 *)
VerifyNothing(p) ==
    /\ pc[p] = "verify"
    /\ Goto(p, "held")
    /\ UNCHANGED <<flockVars, attempt, body, misfired, probeVars>>

(* The inode recheck: hold, or drop the lock on the dead inode and retry.   *)
Verify(p) ==
    /\ pc[p] = "verify"
    /\ \/ /\ OnPath(p)
          /\ Goto(p, "held")
          /\ UNCHANGED <<flockVars, attempt>>
       \/ /\ ~OnPath(p)
          /\ CloseFd(p)
          /\ IF attempt[p] < MaxAttempts
             THEN Goto(p, "open") /\ attempt' = [attempt EXCEPT ![p] = @ + 1]
             ELSE Goto(p, "poll") /\ UNCHANGED attempt
    /\ UNCHANGED <<body, misfired, probeVars>>

(* The loop of acquire(): try again, or return False at the deadline.       *)
Poll(p) == /\ pc[p] = "poll"
           /\ \/ Goto(p, "open") /\ attempt' = [attempt EXCEPT ![p] = 1]
              \/ Goto(p, "idle") /\ UNCHANGED attempt
           /\ UNCHANGED <<flockVars, body, misfired, probeVars>>

-----------------------------------------------------------------------------
(* release(): the release callbacks use the device under the flock; the     *)
(* record and the file are left behind.                                     *)

Release(p) == /\ pc[p] = "held"
              /\ Goto(p, "handover")
              /\ UNCHANGED <<flockVars, attempt, body, misfired, probeVars>>

Unlock(p) == /\ pc[p] = "handover"
             /\ CloseFd(p)
             /\ Goto(p, "idle")
             /\ UNCHANGED <<attempt, body, misfired, probeVars>>

-----------------------------------------------------------------------------
(* foreign_holder(): open, try LOCK_SH, and if that is refused, read.       *)

ProbeOpen(p) == /\ pc[p] = "idle"
                /\ OpenExisting(p)
                /\ Goto(p, "probeFlock")
                /\ used' = [used EXCEPT ![p] = \E q \in Procs : pc[q] \in Acquired]
                /\ UNCHANGED <<attempt, body, misfired, readers, report>>

ProbeFlock(p) ==
    /\ pc[p] = "probeFlock"
    /\ IF owner[fd[p]] = NoProc
       THEN /\ readers' = [readers EXCEPT ![fd[p]] = @ \cup {p}]
            /\ Goto(p, "probeUnlock")
       ELSE Goto(p, "probeRead") /\ UNCHANGED readers
    /\ UNCHANGED <<flockVars, attempt, body, misfired, report, used>>

ProbeUnlock(p) ==
    /\ pc[p] = "probeUnlock"
    /\ readers' = [readers EXCEPT ![fd[p]] = @ \ {p}]
    /\ CloseFd(p)
    /\ report' = [report EXCEPT ![p] = NoProc]
    /\ Goto(p, "reported")
    /\ UNCHANGED <<attempt, body, misfired, used>>

ProbeRead(p) ==
    /\ pc[p] = "probeRead"
    /\ report' = [report EXCEPT ![p] = IF body[fd[p]] = p THEN NoProc
                                                           ELSE body[fd[p]]]
    /\ CloseFd(p)
    /\ Goto(p, "reported")
    /\ UNCHANGED <<attempt, body, misfired, readers, used>>

ProbeReturn(p) == /\ pc[p] = "reported"
                  /\ Goto(p, "idle")
                  /\ report' = [report EXCEPT ![p] = NoProc]
                  /\ used' = [used EXCEPT ![p] = FALSE]
                  /\ UNCHANGED <<flockVars, attempt, body, misfired, readers>>

-----------------------------------------------------------------------------
(* The process dies: its files are closed, the lockfile and record stay.    *)
Crash(p) == /\ pc[p] # "idle"
            /\ CloseFd(p)
            /\ readers' = [i \in Inodes |-> readers[i] \ {p}]
            /\ report' = [report EXCEPT ![p] = NoProc]
            /\ used' = [used EXCEPT ![p] = FALSE]
            /\ Goto(p, "idle")
            /\ UNCHANGED <<attempt, body, misfired>>

Next == \E p \in Procs :
    \/ Acquire(p) \/ SweepFlock(p) \/ SweepUnlink(p)
    \/ SweepClose(p) \/ Open(p) \/ TryFlock(p) \/ Claim(p) \/ Verify(p)
    \/ Poll(p) \/ Release(p) \/ Unlock(p)
    \/ ProbeOpen(p) \/ ProbeFlock(p) \/ ProbeUnlock(p) \/ ProbeRead(p)
    \/ ProbeReturn(p) \/ Crash(p)

Spec == Init /\ [][Next]_vars

-----------------------------------------------------------------------------
(* Two processes never both have the device, in a hold or in the callbacks  *)
(* of a release: what docs/device_locking.md and cleanup_stale()'s          *)
(* docstring say.  It is violated: see MCDeviceLockFileSweep.cfg.           *)
MutualExclusion ==
    \A p, q \in Procs : pc[p] \in InUse /\ pc[q] \in InUse => p = q

(* The only way to two holders is a sweep that unlinked a file other than   *)
(* the one it had locked: acquire(), release(), crashes, probes and sweeps  *)
(* that hit their own file keep the device exclusive.                       *)
ExclusionUnlessMisfired == misfired \/ MutualExclusion

(* From the inode recheck on until the flock is let go, the file a reader   *)
(* opens names the process that has the device (issue #165), as long as no  *)
(* sweep has taken the name away.                                           *)
RecordNamesHolder ==
    ~misfired => \A p \in Procs : pc[p] \in InUse =>
                    path \in Inodes /\ body[path] = p

(* foreign_holder() returns None when no acquirer has had the flock while   *)
(* it ran ("None when the device is unlocked").  It is violated: a sweep's  *)
(* flock is refused to the probe like a holder's, and the record it then    *)
(* reads is the last holder's.  See MCDeviceLockFileProbe.cfg.              *)
NoneWhenUnlocked ==
    \A p \in Procs : report[p] # NoProc => used[p]

-----------------------------------------------------------------------------
(* The inductive invariant, as in PortLockFile, of the states before a      *)
(* sweep has misfired.  A misfire needs a process that locked an inode      *)
(* after its name was taken by another sweep.                               *)
LocksAreOpen == \A i \in Inodes : \A p \in Procs : owner[i] = p => fd[p] = i

LockedOwns == \A p \in Procs :
    /\ pc[p] \in Acquired \cup {"sweepUnlink", "sweepClose"}
          => fd[p] \in Inodes /\ owner[fd[p]] = p
    /\ pc[p] \in {"flock", "sweepFlock", "probeFlock", "probeUnlock", "probeRead"}
          => fd[p] \in Inodes
    /\ pc[p] \in {"idle", "open", "poll", "reported"}
          => fd[p] = NoInode

ClaimedBody ==
    \A p \in Procs : pc[p] \in InUse \cup {"verify"} => body[fd[p]] = p

HoldersOnPath ==
    ~misfired => \A p \in Procs : pc[p] \in InUse => OnPath(p)

IInv == TypeOK /\ LocksAreOpen /\ LockedOwns /\ ClaimedBody /\ HoldersOnPath
=============================================================================
