------------------------ MODULE DeviceLockFileProofs ------------------------
(* Proofs about the device lock's file, for any number of processes.        *)
(*                                                                          *)
(* The argument is that of the port lock (ViceHostProofs) with one step     *)
(* missing: the sweep does not recheck its inode, so "a holder's inode has  *)
(* the name" is only kept by the steps that are not a misfired SweepUnlink. *)
(* What is proved is therefore that a misfire is the only way to two        *)
(* holders.                                                                 *)
EXTENDS DeviceLockFile, TLAPS

USE FlockAssumption, AttemptsAssumption

LEMMA InitIInv == Init => IInv
<1> SUFFICES ASSUME Init PROVE IInv
  OBVIOUS
<1> USE DEF Init, FlockInit
<1>1. fd \in [Procs -> Inodes \cup {NoInode}] /\ path \in Inodes \cup {NoInode}
  OBVIOUS
<1>2. owner \in [Inodes -> Procs \cup {NoProc}] /\ body \in [Inodes -> Procs \cup {NoProc}]
  OBVIOUS
<1>3. report \in [Procs -> Procs \cup {NoProc}] /\ readers \in [Inodes -> SUBSET Procs]
  OBVIOUS
<1>4. pc \in [Procs -> Steps] /\ attempt \in [Procs -> 1 .. MaxAttempts]
  BY DEF Steps
<1>5. used \in [Procs -> BOOLEAN] /\ misfired \in BOOLEAN
  OBVIOUS
<1>6. LocksAreOpen
  BY DEF LocksAreOpen
<1>7. LockedOwns /\ ClaimedBody /\ HoldersOnPath
  BY DEF LockedOwns, ClaimedBody, HoldersOnPath, Acquired, InUse
<1> QED
  BY <1>1, <1>2, <1>3, <1>4, <1>5, <1>6, <1>7 DEF IInv, TypeOK

LEMMA StepIInv == IInv /\ [Next]_vars => IInv'
<1> SUFFICES ASSUME IInv, [Next]_vars PROVE IInv'
  OBVIOUS
<1> USE DEF IInv, TypeOK, LocksAreOpen, LockedOwns, ClaimedBody, HoldersOnPath,
            Acquired, InUse, Steps, Probing, OnPath, Goto, probeVars, flockVars
<1>1. CASE UNCHANGED vars
  BY <1>1 DEF vars
<1>2. ASSUME NEW p \in Procs, Acquire(p) PROVE IInv'
  BY <1>2 DEF Acquire, OpenExisting
<1>3. ASSUME NEW p \in Procs, SweepFlock(p) PROVE IInv'
  BY <1>3 DEF SweepFlock, LockEx, CloseFd, Free
<1>4. ASSUME NEW p \in Procs, SweepUnlink(p) PROVE IInv'
  <2>1. /\ path' = NoInode /\ UNCHANGED <<fd, owner, attempt, body, readers, report, used>>
        /\ pc[p] = "sweepUnlink" /\ pc' = [pc EXCEPT ![p] = "sweepClose"]
        /\ misfired' = (misfired \/ (path # NoInode /\ fd[p] # path))
    BY <1>4 DEF SweepUnlink, Unlink
  <2>2. TypeOK' /\ LocksAreOpen' /\ LockedOwns' /\ ClaimedBody'
    BY <2>1
  <2>3. HoldersOnPath'
    (* A sweep that hits its own file owns that file's inode: no holder does. *)
    <3>1. SUFFICES ASSUME ~misfired', NEW h \in Procs, pc'[h] \in InUse PROVE FALSE
      OBVIOUS
    <3>2. pc[h] \in InUse /\ h # p /\ ~misfired
      BY <2>1, <3>1
    <3>3. fd[h] = path /\ path \in Inodes /\ owner[path] = h
      BY <3>2
    <3>4. fd[p] = path
      BY <2>1, <3>1, <3>3
    <3> QED BY <2>1, <3>2, <3>3, <3>4
  <2> QED BY <2>2, <2>3
<1>5. ASSUME NEW p \in Procs, SweepClose(p) PROVE IInv'
  BY <1>5 DEF SweepClose, CloseFd
<1>6. ASSUME NEW p \in Procs, Open(p) PROVE IInv'
  <2>1. PICK i \in (IF path = NoInode THEN Unused ELSE {path}) :
             path' = i /\ fd' = [fd EXCEPT ![p] = i]
    BY <1>6 DEF Open, OpenCreate
  <2>2. i \in Inodes /\ owner' = owner /\ pc[p] = "open"
    BY <1>6, <2>1 DEF Open, OpenCreate, Unused
  <2>3. /\ pc' = [pc EXCEPT ![p] = "flock"]
        /\ UNCHANGED <<attempt, misfired, readers, report, used>>
        /\ body' = IF path = NoInode THEN [body EXCEPT ![i] = NoProc] ELSE body
    BY <1>6, <2>1 DEF Open
  <2>4. path = NoInode => \A q \in Procs : fd[q] # i
    BY <2>1 DEF Unused
  <2>5. TypeOK' /\ LocksAreOpen' /\ LockedOwns'
    BY <2>1, <2>2, <2>3, <2>4
  <2>6. ClaimedBody'
    BY <2>1, <2>2, <2>3, <2>4
  <2>7. HoldersOnPath'
    BY <2>1, <2>2, <2>3, <2>4
  <2> QED BY <2>5, <2>6, <2>7
<1>7. ASSUME NEW p \in Procs, TryFlock(p) PROVE IInv'
  <2>1. used' \in [Procs -> BOOLEAN]
    <3>1. used' = used \/ used' = [q \in Procs |-> used[q] \/ pc[q] \in Probing]
      BY <1>7 DEF TryFlock, Using
    <3>2. [q \in Procs |-> used[q] \/ pc[q] \in Probing] \in [Procs -> BOOLEAN]
      BY Zenon
    <3>3. used \in [Procs -> BOOLEAN]
      OBVIOUS
    <3> QED BY <3>1, <3>2, <3>3, Zenon
  <2>2. /\ pc[p] = "flock" /\ UNCHANGED <<attempt, body, misfired, readers, report, path>>
        /\ \/ /\ owner[fd[p]] = NoProc /\ owner' = [owner EXCEPT ![fd[p]] = p]
              /\ fd' = fd /\ pc' = [pc EXCEPT ![p] = "claim"]
           \/ CloseFd(p) /\ pc' = [pc EXCEPT ![p] = "poll"]
    BY <1>7 DEF TryFlock, LockEx, CloseFd, Free
  <2>3. TypeOK'
    BY <2>1, <2>2 DEF CloseFd
  <2>4. LocksAreOpen' /\ LockedOwns'
    BY <2>2 DEF CloseFd
  <2>5. ClaimedBody' /\ HoldersOnPath'
    BY <2>2 DEF CloseFd
  <2> QED BY <2>3, <2>4, <2>5
<1>8. ASSUME NEW p \in Procs, Claim(p) PROVE IInv'
  BY <1>8 DEF Claim
<1>9. ASSUME NEW p \in Procs, Verify(p) PROVE IInv'
  BY <1>9 DEF Verify, CloseFd
<1>10. ASSUME NEW p \in Procs, Poll(p) PROVE IInv'
  BY <1>10 DEF Poll
<1>11. ASSUME NEW p \in Procs, Release(p) PROVE IInv'
  BY <1>11 DEF Release
<1>12. ASSUME NEW p \in Procs, Unlock(p) PROVE IInv'
  BY <1>12 DEF Unlock, CloseFd
<1>13. ASSUME NEW p \in Procs, ProbeOpen(p) PROVE IInv'
  BY <1>13 DEF ProbeOpen, OpenExisting
<1>14. ASSUME NEW p \in Procs, ProbeFlock(p) PROVE IInv'
  BY <1>14 DEF ProbeFlock
<1>15. ASSUME NEW p \in Procs, ProbeUnlock(p) PROVE IInv'
  BY <1>15 DEF ProbeUnlock, CloseFd
<1>16. ASSUME NEW p \in Procs, ProbeRead(p) PROVE IInv'
  BY <1>16 DEF ProbeRead, CloseFd
<1>17. ASSUME NEW p \in Procs, ProbeReturn(p) PROVE IInv'
  BY <1>17 DEF ProbeReturn
<1>18. ASSUME NEW p \in Procs, Crash(p) PROVE IInv'
  BY <1>18 DEF Crash, CloseFd
<1> QED
  BY <1>1, <1>2, <1>3, <1>4, <1>5, <1>6, <1>7, <1>8, <1>9, <1>10, <1>11, <1>12,
     <1>13, <1>14, <1>15, <1>16, <1>17, <1>18 DEF Next

(* What every reachable state satisfies, misfired or not.                   *)
THEOREM Invariant == Spec => []IInv
  BY InitIInv, StepIInv, PTL DEF Spec

(* A second holder needs a sweep that unlinked a file it had not locked.    *)
THEOREM OnlyMisfiresBreakExclusion == Spec => []ExclusionUnlessMisfired
<1>1. IInv => ExclusionUnlessMisfired
  BY DEF IInv, TypeOK, LockedOwns, HoldersOnPath, Acquired, InUse, OnPath,
         ExclusionUnlessMisfired, MutualExclusion
<1> QED
  BY <1>1, Invariant, PTL

(* Until then, whoever opens the lockfile while the device is held reads    *)
(* the PID of the process that holds it.                                    *)
THEOREM RecordIsTheHolders == Spec => []RecordNamesHolder
<1>1. IInv => RecordNamesHolder
  BY DEF IInv, TypeOK, LockedOwns, ClaimedBody, HoldersOnPath, Acquired, InUse,
         OnPath, RecordNamesHolder
<1> QED
  BY <1>1, Invariant, PTL
=============================================================================
