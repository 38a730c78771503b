---------------------------- MODULE HoldRegistry ----------------------------
(* backends/device_lock.py, the in-process registry of device holds         *)
(* (issue #136): _PROCESS_HELD, _PROCESS_HELD_THREADS and _ACQUIRE_EPOCHS,  *)
(* kept for one lockfile by all DeviceLock instances of one process.        *)
(*                                                                          *)
(* The lockfile itself is an abstract mutex here (see Mutex): the flock is  *)
(* free, with an instance of this process, or with another process.  Each   *)
(* instance is used by one thread at a time, not always the same one: that  *)
(* a thread may release what another acquired is a tested pattern.          *)

EXTENDS Naturals, FiniteSets

CONSTANTS Insts,                \* the DeviceLock instances
          Nesting,              \* those built with allow_nested=True
          Threads, NoThread,
          Free, Foreign,        \* the flock is free / with another process
          MaxEpoch              \* bound: outermost acquires of this process

RegistryAssumption ==
    /\ Nesting \subseteq Insts
    /\ IsFiniteSet(Insts)
    /\ Free \notin Insts /\ Foreign \notin Insts /\ Free # Foreign
    /\ NoThread \notin Threads
    /\ MaxEpoch \in Nat

VARIABLES flock,                \* who has the flock
          step,                 \* step[i]: where instance i is
          nested,               \* nested[i]: _nested
          caller,               \* caller[i]: the thread inside acquire()
          ownerThread,          \* ownerThread[i]: _owner_thread
          count,                \* _PROCESS_HELD
          threads,              \* _PROCESS_HELD_THREADS; a list in the code,
                                \* to which only the flock's owner appends
          epoch,                \* _ACQUIRE_EPOCHS
          foreignEpoch          \* history: epoch when another process last
                                \* took the flock, NoEpoch if none has

vars == <<flock, step, nested, caller, ownerThread, count, threads, epoch,
          foreignEpoch>>

NoEpoch == MaxEpoch + 1

(* _fd is set at "taken", "on" and "draining"; at "dropped" it is None and  *)
(* the flock still taken.                                                   *)
Owning == {"taken", "on", "draining", "dropped"}
Steps  == {"off", "waiting"} \cup Owning

TypeOK == /\ flock \in Insts \cup {Free, Foreign}
          /\ step \in [Insts -> Steps]
          /\ nested \in [Insts -> BOOLEAN]
          /\ caller \in [Insts -> Threads \cup {NoThread}]
          /\ ownerThread \in [Insts -> Threads \cup {NoThread}]
          /\ count \in Nat
          /\ threads \in SUBSET Threads
          /\ epoch \in 0 .. MaxEpoch
          /\ foreignEpoch \in 0 .. NoEpoch

Init == /\ flock = Free
        /\ step = [i \in Insts |-> "off"]
        /\ nested = [i \in Insts |-> FALSE]
        /\ caller = [i \in Insts |-> NoThread]
        /\ ownerThread = [i \in Insts |-> NoThread]
        /\ count = 0
        /\ threads = {}
        /\ epoch = 0
        /\ foreignEpoch = NoEpoch

-----------------------------------------------------------------------------
(* acquire() on an instance that holds nothing.  An instance that may nest  *)
(* joins a registered hold; the look at the registry is the only one, and   *)
(* what happens while the instance then waits for the flock does not turn   *)
(* it into a join.                                                          *)

Idle(i) == step[i] = "off" /\ ~nested[i]

(* _join_process_hold()                                                     *)
Join(i) == /\ Idle(i) /\ i \in Nesting /\ count > 0
           /\ nested' = [nested EXCEPT ![i] = TRUE]
           /\ count' = count + 1
           /\ UNCHANGED <<flock, step, caller, ownerThread, threads, epoch,
                          foreignEpoch>>

Wait(i, t) == /\ Idle(i) /\ (i \in Nesting => count = 0)
              /\ step' = [step EXCEPT ![i] = "waiting"]
              /\ caller' = [caller EXCEPT ![i] = t]
              /\ UNCHANGED <<flock, nested, ownerThread, count, threads, epoch,
                             foreignEpoch>>

(* The attempt that succeeds, up to the registration.                       *)
Take(i) == /\ step[i] = "waiting" /\ flock = Free /\ epoch < MaxEpoch
           /\ flock' = i
           /\ step' = [step EXCEPT ![i] = "taken"]
           /\ UNCHANGED <<nested, caller, ownerThread, count, threads, epoch,
                          foreignEpoch>>

(* The deadline.                                                            *)
GiveUp(i) == /\ step[i] = "waiting"
             /\ step' = [step EXCEPT ![i] = "off"]
             /\ caller' = [caller EXCEPT ![i] = NoThread]
             /\ UNCHANGED <<flock, nested, ownerThread, count, threads, epoch,
                            foreignEpoch>>

(* Mutant: a hold that does not move the epoch.                             *)
RegisterWithoutEpoch(i) ==
    /\ step[i] = "taken"
    /\ step' = [step EXCEPT ![i] = "on"]
    /\ ownerThread' = [ownerThread EXCEPT ![i] = caller[i]]
    /\ caller' = [caller EXCEPT ![i] = NoThread]
    /\ count' = count + 1
    /\ threads' = threads \cup {caller[i]}
    /\ UNCHANGED <<flock, nested, epoch, foreignEpoch>>

(* _register_process_hold()                                                 *)
Register(i) == /\ step[i] = "taken"
               /\ step' = [step EXCEPT ![i] = "on"]
               /\ ownerThread' = [ownerThread EXCEPT ![i] = caller[i]]
               /\ caller' = [caller EXCEPT ![i] = NoThread]
               /\ epoch' = epoch + 1
               /\ count' = count + 1
               /\ threads' = threads \cup {caller[i]}
               /\ UNCHANGED <<flock, nested, foreignEpoch>>

-----------------------------------------------------------------------------
(* release()                                                                *)

(* _drop_process_hold(): the reference of one instance goes, and with it    *)
(* the thread the instance last registered, if it is still on the list.     *)
DropReference(i) ==
    /\ threads' = threads \ {ownerThread[i]}
    /\ count' = IF count > 1 THEN count - 1 ELSE 0

(* A nested holder only drops its reference.                                *)
ReleaseNested(i) ==
    /\ nested[i]
    /\ nested' = [nested EXCEPT ![i] = FALSE]
    /\ DropReference(i)
    /\ UNCHANGED <<flock, step, caller, ownerThread, epoch, foreignEpoch>>

(* The outermost holder: callbacks under the flock, ...                     *)
BeginRelease(i) == /\ step[i] = "on"
                   /\ step' = [step EXCEPT ![i] = "draining"]
                   /\ UNCHANGED <<flock, nested, caller, ownerThread, count,
                                  threads, epoch, foreignEpoch>>

(* Mutant: the outermost release drops one reference like any other.        *)
PurgeOne(i) ==
    /\ step[i] = "draining"
    /\ step' = [step EXCEPT ![i] = "dropped"]
    /\ DropReference(i)
    /\ UNCHANGED <<flock, nested, caller, ownerThread, epoch, foreignEpoch>>

(* ... then _fd = None and the registry entry purged, nested holds          *)
(* included, while the flock is still held, ...                             *)
Purge(i) == /\ step[i] = "draining"
            /\ step' = [step EXCEPT ![i] = "dropped"]
            /\ count' = 0
            /\ threads' = {}
            /\ UNCHANGED <<flock, nested, caller, ownerThread, epoch,
                           foreignEpoch>>

(* ... and the flock last.                                                  *)
Unlock(i) == /\ step[i] = "dropped"
             /\ step' = [step EXCEPT ![i] = "off"]
             /\ flock' = Free
             /\ UNCHANGED <<nested, caller, ownerThread, count, threads, epoch,
                            foreignEpoch>>

-----------------------------------------------------------------------------
(* Another process takes the device and lets it go.                         *)
ForeignTake == /\ flock = Free /\ flock' = Foreign
               /\ foreignEpoch' = epoch
               /\ UNCHANGED <<step, nested, caller, ownerThread, count,
                              threads, epoch>>

ForeignDrop == /\ flock = Foreign /\ flock' = Free
               /\ UNCHANGED <<step, nested, caller, ownerThread, count,
                              threads, epoch, foreignEpoch>>

Next == \/ \E i \in Insts :
              \/ Join(i) \/ (\E t \in Threads : Wait(i, t)) \/ Take(i)
              \/ GiveUp(i) \/ Register(i) \/ ReleaseNested(i)
              \/ BeginRelease(i) \/ Purge(i) \/ Unlock(i)
        \/ ForeignTake \/ ForeignDrop

Spec == Init /\ [][Next]_vars

-----------------------------------------------------------------------------
(* held_by_this_process(): TRUE only while this process has the flock.  A   *)
(* client that trusts it never drives a device another lane has taken, even *)
(* when nested holds are released after, or never before, their outer one.  *)
RegisteredHasFlock == count > 0 => flock \in Insts

(* _held_by_this_thread(): TRUE only for the thread that took the flock now *)
(* held, so acquire() never caps a wait that another thread can end.        *)
ListedThreadTookFlock ==
    \A t \in threads : flock \in Insts /\ ownerThread[flock] = t

(* acquire_epoch(): a hold of this process that follows another process's   *)
(* has an epoch that no earlier hold of this process had, which is what     *)
(* makes the /Temp ledger sweep again after another lane used the device.   *)
EpochSeparatesLanes == count > 0 => epoch # foreignEpoch

(* _held_by_this_thread() is TRUE for the thread that took the flock, for   *)
(* as long as the hold lasts ("whether the flock we just failed to take is  *)
(* held by this thread").  Violated: see MCHoldRegistryThread.cfg.          *)
HoldingThreadIsListed ==
    \A i \in Insts : step[i] = "on" => ownerThread[i] \in threads

-----------------------------------------------------------------------------
(* The inductive invariant: the owner of the flock is the one instance      *)
(* between its successful attempt and its unlock; only while it is          *)
(* registered is anything counted, and its epoch is then newer than the     *)
(* last hold of another process.                                            *)
OwnerIsOne == \A i \in Insts : step[i] \in Owning <=> flock = i

RegisteredSteps == {"on", "draining"}

CountedHold == count > 0 => flock \in Insts /\ step[flock] \in RegisteredSteps

ListedHold == \A t \in threads : /\ flock \in Insts
                                 /\ step[flock] \in RegisteredSteps
                                 /\ ownerThread[flock] = t

EpochOfHold ==
    /\ foreignEpoch = NoEpoch \/ foreignEpoch <= epoch
    /\ \A i \in Insts : step[i] \in RegisteredSteps
          => foreignEpoch = NoEpoch \/ foreignEpoch < epoch
    /\ \A i \in Insts : step[i] = "taken" => epoch < MaxEpoch
    /\ \A i \in Insts : step[i] \in {"waiting", "taken"} => caller[i] \in Threads

IInv == TypeOK /\ OwnerIsOne /\ CountedHold /\ ListedHold /\ EpochOfHold
=============================================================================
