------------------------------- MODULE Flock -------------------------------
(* What the operating system gives the two lock classes of the harness: one *)
(* lockfile name in a directory, the inodes it can lead to, and exclusive   *)
(* advisory locks, which belong to inodes and not to names.  The name of a  *)
(* lockfile can be unlinked while processes still have the inode open, and  *)
(* the next O_CREAT open then makes another inode: this is what both        *)
(* PortLockFile and DeviceLockFile have to live with.                       *)
(*                                                                          *)
(* Procs are the actors that lock: operating-system processes, or threads   *)
(* of one process, which flock() cannot tell apart because every attempt    *)
(* opens the file anew.                                                     *)

CONSTANTS Procs, NoProc,        \* actors, and "nobody"
          Inodes, NoInode       \* inodes, and "no file of that name"

ASSUME FlockAssumption == NoProc \notin Procs /\ NoInode \notin Inodes

VARIABLES path,                 \* the inode the lockfile's name leads to
          fd,                   \* fd[p]: the inode p has open, if any
          owner                 \* owner[i]: who holds LOCK_EX on inode i

flockVars == <<path, fd, owner>>

FlockInit == /\ path \in Inodes \cup {NoInode}
             /\ fd = [p \in Procs |-> NoInode]
             /\ owner = [i \in Inodes |-> NoProc]

(* An inode number can be given to a new file once nothing refers to it.    *)
Unused == {i \in Inodes : i # path /\ \A p \in Procs : fd[p] # i}

(* os.open(path, O_RDWR): needs the file.                                   *)
OpenExisting(p) == /\ path # NoInode
                   /\ fd' = [fd EXCEPT ![p] = path]
                   /\ UNCHANGED <<path, owner>>

(* os.open(path, O_CREAT | O_RDWR): takes the file or makes a new one.      *)
OpenCreate(p) == /\ \E i \in IF path = NoInode THEN Unused ELSE {path} :
                       /\ path' = i
                       /\ fd' = [fd EXCEPT ![p] = i]
                 /\ UNCHANGED owner

(* flock(fd, LOCK_EX | LOCK_NB) that succeeds.                              *)
LockEx(p) == /\ owner[fd[p]] = NoProc
             /\ owner' = [owner EXCEPT ![fd[p]] = p]
             /\ UNCHANGED <<path, fd>>

(* os.fstat(fd) and os.stat(path) agree on the inode.                       *)
OnPath(p) == fd[p] = path

(* os.unlink(path): by name, whatever inode the name leads to by now.       *)
Unlink == path' = NoInode /\ UNCHANGED <<fd, owner>>

(* LOCK_UN and os.close(fd), or the kernel closing a dead process's files.  *)
CloseFd(p) == /\ fd' = [fd EXCEPT ![p] = NoInode]
              /\ owner' = [i \in Inodes |-> IF owner[i] = p THEN NoProc
                                                            ELSE owner[i]]
              /\ UNCHANGED path
=============================================================================
