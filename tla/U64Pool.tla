------------------------------ MODULE U64Pool ------------------------------
(* backends/ultimate64_manager.py: Ultimate64InstanceManager, and           *)
(* backends/unified_manager.py: _LockedU64Manager, which wraps it.          *)
(*                                                                          *)
(* A manager is a process.  Its threads take devices from its pool, then    *)
(* the lock that the processes share, and give both back.  A device is an   *)
(* entry of a pool; two entries may name the same unit.  The pool's lock is *)
(* held throughout acquire(), probes included, so that a step below is a    *)
(* whole passage through it.                                                *)

EXTENDS Naturals, Sequences, FiniteSets

CONSTANTS Managers, Threads,
          MgrOf,                \* the manager a thread calls
          Devices,              \* the entries of every manager's pool
          UnitOf,               \* the unit that an entry names
          NoOne, NoDevice,
          Closers,              \* bound: the managers that shut down
          Interrupted           \* bound: the threads that Ctrl-C may hit

PoolAssumption ==
    /\ MgrOf \in [Threads -> Managers]
    /\ Managers \cap Threads = {} /\ NoOne \notin Managers \cup Threads
    /\ IsFiniteSet(Devices) /\ Devices # {} /\ NoDevice \notin Devices
    /\ DOMAIN UnitOf = Devices
    /\ Closers \subseteq Managers /\ Interrupted \subseteq Threads

Units == {UnitOf[d] : d \in Devices}

VARIABLES available,            \* _available
          inFlight,             \* _in_flight: whose instance is in it
          waiting, notified,    \* the waiters of _cond, and the woken ones
          locks,                \* _locks: whose instance is in it
          lock,                 \* lock[u]: who has the flock of a unit:
                                \*   a thread, or a manager's shutdown()
          pc, device,           \* what a thread does, and its device
          open,                 \* whose transport is open
          phase,                \* how far a manager's shutdown() is
          stopping,             \* the instances it has yet to stop
          probeFailed           \* a probe of the manager's has failed

vars == <<available, inFlight, waiting, notified, locks, lock, pc, device,
          open, phase, stopping, probeFailed>>
poolVars == <<available, inFlight, notified, probeFailed>>
lockVars == <<locks, lock>>
endVars == <<phase, stopping>>

Mine(m) == {t \in Threads : MgrOf[t] = m}

TypeOK ==
    /\ available \in [Managers -> Seq(Devices)]
    /\ inFlight \in [Managers -> SUBSET Threads]
    /\ waiting \subseteq Threads /\ notified \subseteq waiting
    /\ locks \in [Managers -> SUBSET Threads]
    /\ lock \in [Units -> Threads \cup Managers \cup {NoOne}]
    /\ pc \in [Threads -> {"idle", "wait", "locking", "register", "baseline",
                           "have", "giveback", "stop", "gone"}]
    /\ device \in [Threads -> Devices \cup {NoDevice}]
    /\ open \subseteq Threads
    /\ phase \in [Managers -> {"no", "unlock", "stop", "done"}]
    /\ stopping \in [Managers -> SUBSET Threads]
    /\ probeFailed \in [Managers -> BOOLEAN]

Listing(S) == {q \in [1 .. Cardinality(S) -> S] :
                 \A i, j \in 1 .. Cardinality(S) : i # j => q[i] # q[j]}

Init == /\ available \in [Managers -> Listing(Devices)]
        /\ inFlight = [m \in Managers |-> {}]
        /\ waiting = {} /\ notified = {}
        /\ locks = [m \in Managers |-> {}]
        /\ lock = [u \in Units |-> NoOne]
        /\ pc = [t \in Threads |-> "idle"]
        /\ device = [t \in Threads |-> NoDevice]
        /\ open = {}
        /\ phase = [m \in Managers |-> "no"]
        /\ stopping = [m \in Managers |-> {}]
        /\ probeFailed = [m \in Managers |-> FALSE]

Goto(t, step) == pc' = [pc EXCEPT ![t] = step]

IsShut(m) == phase[m] \in {"stop", "done"}      \* _shutdown

-----------------------------------------------------------------------------
(* Ultimate64InstanceManager.acquire()                                      *)

(* The next device is taken, and the k that failed go to the end.           *)
WithoutNext(Q, k) == SubSeq(Q, k + 2, Len(Q)) \o SubSeq(Q, 1, k)

TakeDevice(t, m, k) ==
    /\ available' = [available EXCEPT ![m] = WithoutNext(@, k)]
    /\ device' = [device EXCEPT ![t] = available[m][k + 1]]
    /\ \/ /\ inFlight' = [inFlight EXCEPT ![m] = @ \cup {t}]
          /\ open' = open \cup {t}
          /\ Goto(t, "locking")
       \/ /\ t \in Interrupted               \* before it is in flight
          /\ Goto(t, "gone")
          /\ UNCHANGED <<inFlight, open>>

(* The first k devices fail their probes; if all do, the pool is as it was. *)
Probe(t, m) ==
    \E k \in 0 .. Len(available[m]) :
        /\ probeFailed' = [probeFailed EXCEPT ![m] = @ \/ k > 0]
        /\ \/ /\ k = Len(available[m])
              /\ Goto(t, "idle")
              /\ UNCHANGED <<available, inFlight, device, open>>
           \/ /\ k < Len(available[m])
              /\ TakeDevice(t, m, k)

Acquire(t) ==
    LET m == MgrOf[t]
    IN  /\ pc[t] = "idle" /\ ~IsShut(m)
        /\ \/ /\ available[m] = <<>>
              /\ Goto(t, "wait")
              /\ waiting' = waiting \cup {t}
              /\ UNCHANGED <<available, inFlight, device, open, probeFailed>>
           \/ /\ available[m] # <<>>
              /\ Probe(t, m)
              /\ UNCHANGED waiting
        /\ UNCHANGED <<notified, lockVars, endVars>>

(* A woken waiter that finds the pool empty again waits on.                 *)
WaitsOn(t) ==
    /\ pc[t] = "wait" /\ t \in notified
    /\ available[MgrOf[t]] = <<>> /\ ~IsShut(MgrOf[t])
    /\ notified' = notified \ {t}
    /\ UNCHANGED <<available, inFlight, waiting, lockVars, pc, device, open,
                   endVars, probeFailed>>

(* A waiter is woken, or its time is up.                                    *)
WaitOver(t) ==
    LET m == MgrOf[t]
    IN  /\ pc[t] = "wait"
        /\ waiting' = waiting \ {t} /\ notified' = notified \ {t}
        /\ \/ /\ IsShut(m) \/ available[m] = <<>>
              /\ Goto(t, "idle")
              /\ UNCHANGED <<available, inFlight, device, open, probeFailed>>
           \/ /\ ~IsShut(m) /\ available[m] # <<>>
              /\ Probe(t, m)
        /\ UNCHANGED <<lockVars, endVars>>

-----------------------------------------------------------------------------
(* _LockedU64Manager.acquire()                                              *)

Unit(t) == UnitOf[device[t]]

(* Mutant: a hold of any process is joined.                                 *)
LockJoinsAny(t) ==
    /\ pc[t] = "locking"
    /\ lock' = [lock EXCEPT ![Unit(t)] = IF @ = NoOne THEN t ELSE @]
    /\ Goto(t, "register")
    /\ UNCHANGED <<poolVars, waiting, locks, device, open, endVars>>

(* DeviceLock with allow_nested: the flock is taken, or a hold of the same  *)
(* process is joined.                                                       *)
Lock(t) ==
    LET u == Unit(t)
        m == MgrOf[t]
    IN  /\ pc[t] = "locking"
        /\ \/ lock[u] = NoOne /\ lock' = [lock EXCEPT ![u] = t]
           \/ lock[u] \in Mine(m) \cup {m} /\ UNCHANGED lock
        /\ Goto(t, "register")
        /\ UNCHANGED <<poolVars, waiting, locks, device, open, endVars>>

LockFails(t) == /\ pc[t] = "locking"
                /\ Goto(t, "giveback")
                /\ UNCHANGED <<poolVars, waiting, lockVars, device, open,
                               endVars>>

Register(t) == /\ pc[t] = "register"
               /\ locks' = [locks EXCEPT ![MgrOf[t]] = @ \cup {t}]
               /\ Goto(t, "baseline")
               /\ UNCHANGED <<poolVars, waiting, lock, device, open, endVars>>

(* The baseline was skipped or has run.                                     *)
Baseline(t) == /\ pc[t] = "baseline"
               /\ Goto(t, "have")
               /\ UNCHANGED <<poolVars, waiting, lockVars, device, open,
                              endVars>>

Unlocked(t) == IF lock[Unit(t)] = t THEN [lock EXCEPT ![Unit(t)] = NoOne]
                                    ELSE lock

BaselineFails(t) ==
    /\ pc[t] = "baseline"
    /\ locks' = [locks EXCEPT ![MgrOf[t]] = @ \ {t}]
    /\ lock' = Unlocked(t)
    /\ Goto(t, "giveback")
    /\ UNCHANGED <<poolVars, waiting, device, open, endVars>>

(* Nothing is rolled back while the device's generation is being asked.     *)
Interrupt(t) == /\ pc[t] = "baseline" /\ t \in Interrupted
                /\ Goto(t, "gone")
                /\ UNCHANGED <<poolVars, waiting, lockVars, device, open,
                               endVars>>

-----------------------------------------------------------------------------
(* release(), of the wrapper and of the pool                                *)

ReleaseLock(t) ==
    LET m == MgrOf[t]
    IN  /\ pc[t] = "have"
        /\ \/ /\ t \in locks[m]
              /\ locks' = [locks EXCEPT ![m] = @ \ {t}]
              /\ lock' = Unlocked(t)
           \/ t \notin locks[m] /\ UNCHANGED lockVars
        /\ Goto(t, "giveback")
        /\ UNCHANGED <<poolVars, waiting, device, open, endVars>>

(* Condition.notify()                                                       *)
Notify(m) ==
    LET asleep == (waiting \ notified) \cap Mine(m)
    IN  \/ asleep = {} /\ UNCHANGED notified
        \/ \E w \in asleep : notified' = notified \cup {w}

(* Mutant: nobody is told.                                                  *)
GiveBackQuietly(t) ==
    LET m == MgrOf[t]
    IN  /\ pc[t] = "giveback"
        /\ t \in inFlight[m]
        /\ inFlight' = [inFlight EXCEPT ![m] = @ \ {t}]
        /\ available' = [available EXCEPT ![m] = Append(@, device[t])]
        /\ Goto(t, "stop")
        /\ UNCHANGED <<notified, waiting, lockVars, device, open, endVars,
                       probeFailed>>

(* Mutant: a release that shutdown() came before is not told from a first.  *)
GiveBackTwice(t) ==
    LET m == MgrOf[t]
    IN  /\ pc[t] = "giveback"
        /\ inFlight' = [inFlight EXCEPT ![m] = @ \ {t}]
        /\ available' = [available EXCEPT ![m] = Append(@, device[t])]
        /\ Notify(m)
        /\ Goto(t, "stop")
        /\ UNCHANGED <<waiting, lockVars, device, open, endVars, probeFailed>>

GiveBack(t) ==
    LET m == MgrOf[t]
    IN  /\ pc[t] = "giveback"
        /\ \/ /\ t \in inFlight[m]
              /\ inFlight' = [inFlight EXCEPT ![m] = @ \ {t}]
              /\ available' = [available EXCEPT ![m] = Append(@, device[t])]
              /\ Notify(m)
              /\ Goto(t, "stop") /\ UNCHANGED device
           \/ /\ t \notin inFlight[m]
              /\ Goto(t, "idle") /\ device' = [device EXCEPT ![t] = NoDevice]
              /\ UNCHANGED <<inFlight, available, notified>>
        /\ UNCHANGED <<waiting, lockVars, open, endVars, probeFailed>>

Stop(t) == /\ pc[t] = "stop"
           /\ open' = open \ {t}
           /\ Goto(t, "idle") /\ device' = [device EXCEPT ![t] = NoDevice]
           /\ UNCHANGED <<poolVars, waiting, lockVars, endVars>>

-----------------------------------------------------------------------------
(* shutdown(): the locks, then the pool, then the transports.               *)

Shutdown(m) ==
    /\ phase[m] = "no" /\ m \in Closers
    /\ lock' = [u \in Units |-> IF lock[u] \in locks[m] THEN m ELSE lock[u]]
    /\ locks' = [locks EXCEPT ![m] = {}]
    /\ phase' = [phase EXCEPT ![m] = "unlock"]
    /\ UNCHANGED <<poolVars, waiting, pc, device, open, stopping>>

ShutdownUnlock(m) ==
    /\ phase[m] = "unlock"
    /\ \E u \in Units : /\ lock[u] = m
                        /\ lock' = [lock EXCEPT ![u] = NoOne]
    /\ UNCHANGED <<poolVars, waiting, locks, pc, device, open, endVars>>

ShutdownPool(m) ==
    /\ phase[m] = "unlock"
    /\ \A u \in Units : lock[u] # m
    /\ phase' = [phase EXCEPT ![m] = "stop"]
    /\ stopping' = [stopping EXCEPT ![m] = inFlight[m]]
    /\ inFlight' = [inFlight EXCEPT ![m] = {}]
    /\ available' = [available EXCEPT ![m] = <<>>]
    /\ notified' = notified \cup (waiting \cap Mine(m))
    /\ UNCHANGED <<waiting, lockVars, pc, device, open, probeFailed>>

ShutdownStop(m) ==
    /\ phase[m] = "stop"
    /\ \/ \E t \in stopping[m] :
            /\ stopping' = [stopping EXCEPT ![m] = @ \ {t}]
            /\ open' = open \ {t}
            /\ UNCHANGED phase
       \/ /\ stopping[m] = {}
          /\ phase' = [phase EXCEPT ![m] = "done"]
          /\ UNCHANGED <<stopping, open>>
    /\ UNCHANGED <<poolVars, waiting, lockVars, pc, device>>

Next == \/ \E t \in Threads :
             \/ Acquire(t) \/ WaitsOn(t) \/ WaitOver(t)
             \/ Lock(t) \/ LockFails(t) \/ Register(t)
             \/ Baseline(t) \/ BaselineFails(t) \/ Interrupt(t)
             \/ ReleaseLock(t) \/ GiveBack(t) \/ Stop(t)
        \/ \E m \in Managers :
             \/ Shutdown(m) \/ ShutdownUnlock(m) \/ ShutdownPool(m)
             \/ ShutdownStop(m)

Spec == Init /\ [][Next]_vars

-----------------------------------------------------------------------------
(* Properties                                                               *)

(* Whoever uses a unit has its lock, and so no other thread of its process  *)
(* or of another uses it, until the manager begins to shut down.            *)
UserHasLock ==
    \A t \in Threads :
        pc[t] \in {"register", "baseline", "have"} /\ phase[MgrOf[t]] = "no" =>
            lock[Unit(t)] = t

(* What UserHasLock rests on: a device is out once at most and then not     *)
(* available (DevicesDiffer), whoever is busy has one (BusyHasDevice), a    *)
(* flock is its user's (LockIsUsers) or that of a shutdown() that is        *)
(* unlocking (LockIsClosers).                                               *)
Using == {"register", "baseline", "have"}
Busy == Using \cup {"locking", "giveback", "gone"}

Out(m) == {t \in Mine(m) : pc[t] \in Busy}

DevicesDiffer ==
    \A m \in Managers :
        /\ \A i, j \in DOMAIN available[m] :
              i # j => available[m][i] # available[m][j]
        /\ \A t, u \in Out(m) : t # u => device[t] # device[u]
        /\ \A t \in Out(m), i \in DOMAIN available[m] :
              available[m][i] # device[t]

BusyHasDevice ==
    /\ \A t \in Threads : pc[t] \in Busy \cup {"stop"} => device[t] \in Devices
    /\ \A m \in Managers : locks[m] \subseteq Mine(m)

LockIsUsers ==
    \A u \in Units, t \in Threads :
        lock[u] = t => /\ pc[t] \in Using \cup {"gone"}
                       /\ Unit(t) = u
                       /\ pc[t] \in {"baseline", "have"} => t \in locks[MgrOf[t]]

LockIsClosers ==
    \A u \in Units, m \in Managers : lock[u] = m => phase[m] = "unlock"

IInv == /\ TypeOK /\ DevicesDiffer /\ BusyHasDevice
        /\ LockIsUsers /\ LockIsClosers /\ UserHasLock

(* A pool neither loses nor doubles a device: each is available once, or a  *)
(* thread's whose acquire() or release() is not over, or was lost to an     *)
(* interrupt.                                                               *)
PoolIsExact ==
    \A m \in Managers :
        LET Q == available[m]
            out == inFlight[m] \cup {t \in Mine(m) : pc[t] = "gone"}
        IN  /\ \A i, j \in DOMAIN Q : i # j => Q[i] # Q[j]
            /\ \A t, u \in out : t # u => device[t] # device[u]
            /\ \A t \in out : \A i \in DOMAIN Q : Q[i] # device[t]
            /\ IF IsShut(m) THEN Q = <<>> /\ inFlight[m] = {}
               ELSE Len(Q) + Cardinality(out) = Cardinality(Devices)

(* While probes succeed, nobody sleeps beside a free device: for every one  *)
(* that is available some waiter has been woken, if any sleeps.             *)
WakeupsMatchDevices ==
    \A m \in Managers :
        \/ probeFailed[m] \/ IsShut(m)
        \/ Mine(m) \cap waiting \subseteq notified
        \/ Len(available[m]) <= Cardinality(notified \cap Mine(m))

(* When the threads of a manager are done and no shutdown is under way, it  *)
(* has left no lock, no registration and no open transport behind, however  *)
(* acquire() failed.                                                        *)
NothingLeaks ==
    \A m \in Managers :
        (phase[m] \in {"no", "done"} /\ \A t \in Mine(m) : pc[t] \in {"idle", "wait"})
            => /\ \A u \in Units : lock[u] \notin Mine(m) \cup {m}
               /\ locks[m] = {}
               /\ open \cap Mine(m) = {}

(* No device is lost by the pool and none is in it twice, and no failure    *)
(* leaves a lock, a transport or a device behind.                           *)
KeepsBooks == IInv /\ PoolIsExact /\ NothingLeaks

=============================================================================
