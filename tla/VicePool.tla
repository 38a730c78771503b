------------------------------ MODULE VicePool ------------------------------
(* backends/vice_manager.py: PortAllocator, ViceInstance and                *)
(* ViceInstanceManager.                                                     *)
(*                                                                          *)
(* Managers of different processes share the machine's TCP ports and their  *)
(* lockfiles; the threads of a manager share its allocator.  A PortLock is  *)
(* the atomic lock that PortLockFile implements.  Each thread has at most   *)
(* one instance, or is making one; the emulator it launches is named after  *)
(* it.  Somebody who does not use the harness may run an emulator too.      *)

EXTENDS Naturals, FiniteSets

CONSTANTS Managers, Threads,
          MgrOf,                \* the manager a thread calls
          Outsider, NoOne,
          LastPort,             \* the ports are 1 .. LastPort
          OutsiderPorts,        \* bound: where Outsider may listen
          Closers,              \* bound: the managers that shut down
          ReuseExisting,        \* reuse_existing, per manager
          EnableTextMonitor,    \* enable_text_monitor, per manager
          MaxRetries            \* max_retries

ASSUME PoolAssumption ==
    /\ MgrOf \in [Threads -> Managers]
    /\ Managers \cap Threads = {}
    /\ {Outsider, NoOne} \cap (Managers \cup Threads) = {}
    /\ Outsider # NoOne
    /\ OutsiderPorts \subseteq 1 .. LastPort /\ Closers \subseteq Managers
    /\ LastPort \in Nat /\ MaxRetries \in Nat \ {0}
    /\ ReuseExisting \in [Managers -> BOOLEAN]
    /\ EnableTextMonitor \in [Managers -> BOOLEAN]

VARIABLES allocated,            \* allocated[m]: PortAllocator._allocated
          listener,             \* listener[p]: a manager's reservation
                                \*   socket, or an emulator, or nobody
          flock,                \* flock[p]: in the allocator's _held_locks,
                                \*   or in the thread's instance
          emu,                  \* emu[t]: the emulator that t launched
          pc, job,              \* what a thread does, and its instance
          listed,               \* the threads whose instance is listed in
                                \*   _instances
          closing,              \* closing[m]: what is left of shutdown()
          misfreed              \* a port was freed that another instance uses

vars == <<allocated, listener, flock, emu, pc, job, listed, closing, misfreed>>

Ports == 1 .. LastPort
NoPort == 0

Jobs == [port : Ports \cup {NoPort}, text : Ports \cup {NoPort},
         cursor : 1 .. LastPort + 1, attempt : 1 .. MaxRetries,
         conn : Threads \cup {Outsider, NoOne}, freed : BOOLEAN]

NewJob == [port |-> NoPort, text |-> NoPort, cursor |-> 1, attempt |-> 1,
           conn |-> NoOne, freed |-> FALSE]

Emulators == Threads \cup {Outsider}

TypeOK ==
    /\ allocated \in [Managers -> SUBSET Ports]
    /\ listener \in [Ports -> Managers \cup Emulators \cup {NoOne}]
    /\ flock \in [Ports -> Managers \cup Threads \cup {NoOne}]
    /\ emu \in [Threads -> {"off", "booting", "up"}]
    /\ pc \in [Threads -> {"idle", "scan", "flock", "begin", "adopt",
                           "handover", "connect", "verify", "failed",
                           "have", "release"}]
    /\ job \in [Threads -> Jobs]
    /\ listed \subseteq Threads
    /\ closing \in [Managers -> SUBSET [thread : Threads,
                                        ports : SUBSET Ports,
                                        current : BOOLEAN,
                                        stopped : BOOLEAN]]
    /\ misfreed \in BOOLEAN

Init == /\ allocated = [m \in Managers |-> {}]
        /\ listener = [p \in Ports |-> NoOne]
        /\ flock = [p \in Ports |-> NoOne]
        /\ emu = [t \in Threads |-> "off"]
        /\ pc = [t \in Threads |-> "idle"]
        /\ job = [t \in Threads |-> NewJob]
        /\ listed = {}
        /\ closing = [m \in Managers |-> {}]
        /\ misfreed = FALSE

Goto(t, step) == pc' = [pc EXCEPT ![t] = step]

PortsOf(t) == {job[t].port, job[t].text} \ {NoPort}

(* allocate() holds the allocator's lock from end to end.                   *)
AllocatorFree(m) ==
    \A t \in Threads : MgrOf[t] = m => pc[t] \notin {"scan", "flock"}

-----------------------------------------------------------------------------
(* PortAllocator.allocate(), one port after another.  The first call is for *)
(* the binary monitor's port, a second one for the text monitor's.          *)

WantsText(t) == job[t].port # NoPort

AllowInUse(t) == ReuseExisting[MgrOf[t]] /\ ~WantsText(t)

Acquire(t) == /\ pc[t] = "idle"
              /\ AllocatorFree(MgrOf[t])
              /\ job' = [job EXCEPT ![t] = NewJob]
              /\ Goto(t, "scan")
              /\ UNCHANGED <<allocated, listener, flock, emu, listed, closing,
                             misfreed>>

ScanSkip(t) ==
    LET p == job[t].cursor
    IN  /\ pc[t] = "scan" /\ p \in Ports
        /\ \/ p \in allocated[MgrOf[t]]
           \/ listener[p] # NoOne /\ ~AllowInUse(t)
        /\ job' = [job EXCEPT ![t].cursor = p + 1]
        /\ UNCHANGED <<allocated, listener, flock, emu, pc, listed, closing,
                       misfreed>>

Got(t) == LET p == job[t].cursor
          IN  IF WantsText(t)
              THEN /\ job' = [job EXCEPT ![t].text = p, ![t].cursor = 1]
                   /\ Goto(t, "handover")
              ELSE /\ job' = [job EXCEPT ![t].port = p, ![t].cursor = 1]
                   /\ Goto(t, "begin")

(* A port in use, taken without a reservation.                              *)
ScanInUse(t) ==
    LET p == job[t].cursor
    IN  /\ pc[t] = "scan" /\ p \in Ports \ allocated[MgrOf[t]]
        /\ listener[p] # NoOne /\ AllowInUse(t)
        /\ allocated' = [allocated EXCEPT ![MgrOf[t]] = @ \cup {p}]
        /\ Got(t)
        /\ UNCHANGED <<listener, flock, emu, listed, closing, misfreed>>

ScanBind(t) ==
    LET p == job[t].cursor
    IN  /\ pc[t] = "scan" /\ p \in Ports \ allocated[MgrOf[t]]
        /\ listener[p] = NoOne
        /\ listener' = [listener EXCEPT ![p] = MgrOf[t]]
        /\ Goto(t, "flock")
        /\ UNCHANGED <<allocated, flock, emu, job, listed, closing, misfreed>>

(* Mutant: the port is marked first, and a refused one is not undone.       *)
TryLockLate(t) ==
    LET p == job[t].cursor
        m == MgrOf[t]
    IN  /\ pc[t] = "flock"
        /\ allocated' = [allocated EXCEPT ![m] = @ \cup {p}]
        /\ \/ /\ flock[p] = NoOne
              /\ flock' = [flock EXCEPT ![p] = m]
              /\ Got(t)
           \/ /\ flock[p] # NoOne
              /\ job' = [job EXCEPT ![t].cursor = p + 1]
              /\ Goto(t, "scan")
              /\ UNCHANGED flock
        /\ UNCHANGED <<listener, emu, listed, closing, misfreed>>

TryLock(t) ==
    LET p == job[t].cursor
        m == MgrOf[t]
    IN  /\ pc[t] = "flock"
        /\ \/ /\ flock[p] = NoOne
              /\ flock' = [flock EXCEPT ![p] = m]
              /\ allocated' = [allocated EXCEPT ![m] = @ \cup {p}]
              /\ Got(t)
              /\ UNCHANGED listener
           \/ /\ flock[p] # NoOne
              /\ listener' = [listener EXCEPT ![p] = NoOne]
              /\ job' = [job EXCEPT ![t].cursor = p + 1]
              /\ Goto(t, "scan")
              /\ UNCHANGED <<flock, allocated>>
        /\ UNCHANGED <<emu, listed, closing, misfreed>>

(* acquire() tries again, from the first port, or gives up.                 *)
Again(j) == IF j.attempt < MaxRetries
            THEN [NewJob EXCEPT !.attempt = j.attempt + 1] ELSE NewJob

AgainAt(j) == IF j.attempt < MaxRetries THEN "scan" ELSE "idle"

Exhausted(t) ==
    /\ pc[t] = "scan" /\ job[t].cursor = LastPort + 1
    /\ IF WantsText(t)
       THEN Goto(t, "failed") /\ UNCHANGED job
       ELSE /\ job' = [job EXCEPT ![t] = Again(@)]
            /\ Goto(t, AgainAt(job[t]))
    /\ UNCHANGED <<allocated, listener, flock, emu, listed, closing, misfreed>>

-----------------------------------------------------------------------------
(* _start_or_adopt() and _start_instance()                                  *)

Begin(t) ==
    LET m == MgrOf[t]
    IN  /\ pc[t] = "begin"
        /\ \/ /\ ReuseExisting[m] /\ listener[job[t].port] # NoOne
              /\ Goto(t, "adopt") /\ UNCHANGED job
           \/ /\ ~(ReuseExisting[m] /\ listener[job[t].port] # NoOne)
              /\ EnableTextMonitor[m]
              /\ AllocatorFree(m)
              /\ Goto(t, "scan") /\ UNCHANGED job
           \/ /\ ~(ReuseExisting[m] /\ listener[job[t].port] # NoOne)
              /\ ~EnableTextMonitor[m]
              /\ Goto(t, "handover") /\ UNCHANGED job
        /\ UNCHANGED <<allocated, listener, flock, emu, listed, closing,
                       misfreed>>

(* BinaryViceTransport() asks for the registers: only an emulator answers.  *)
AdoptConnect(t) ==
    /\ pc[t] = "adopt"
    /\ \/ /\ listener[job[t].port] \in Emulators
          /\ job' = [job EXCEPT ![t].conn = listener[job[t].port]]
          /\ Goto(t, "have")
          /\ listed' = listed \cup {t}
       \/ Goto(t, "failed") /\ UNCHANGED <<job, listed>>
    /\ UNCHANGED <<allocated, listener, flock, emu, closing, misfreed>>

(* Mutant: the lockfile goes with the reservation.                          *)
HandOverAll(t) ==
    /\ pc[t] = "handover" /\ AllocatorFree(MgrOf[t])
    /\ flock' = [p \in Ports |->
            IF p \in PortsOf(t) /\ flock[p] = MgrOf[t] THEN NoOne ELSE flock[p]]
    /\ listener' = [p \in Ports |->
            IF p \in PortsOf(t) /\ listener[p] = MgrOf[t]
            THEN NoOne ELSE listener[p]]
    /\ emu' = [emu EXCEPT ![t] = "booting"]
    /\ Goto(t, "connect")
    /\ UNCHANGED <<allocated, job, listed, closing, misfreed>>

(* take_lock() and take_socket(): the lockfile stays locked, the            *)
(* reservation is closed to make room for the emulator.                     *)
HandOver(t) ==
    /\ pc[t] = "handover" /\ AllocatorFree(MgrOf[t])
    /\ flock' = [p \in Ports |->
            IF p \in PortsOf(t) /\ flock[p] = MgrOf[t] THEN t ELSE flock[p]]
    /\ listener' = [p \in Ports |->
            IF p \in PortsOf(t) /\ listener[p] = MgrOf[t]
            THEN NoOne ELSE listener[p]]
    /\ emu' = [emu EXCEPT ![t] = "booting"]
    /\ Goto(t, "connect")
    /\ UNCHANGED <<allocated, job, listed, closing, misfreed>>

Connect(t) ==
    /\ pc[t] = "connect"
    /\ listener[job[t].port] \in Emulators
    /\ job[t].text # NoPort => listener[job[t].text] # NoOne
    /\ job' = [job EXCEPT ![t].conn = listener[job[t].port]]
    /\ Goto(t, "verify")
    /\ UNCHANGED <<allocated, listener, flock, emu, listed, closing, misfreed>>

(* Mutant: whoever listens is taken for the emulator.                       *)
VerifyNothing(t) ==
    /\ pc[t] = "verify"
    /\ Goto(t, "have") /\ listed' = listed \cup {t}
    /\ UNCHANGED <<allocated, listener, flock, emu, job, closing, misfreed>>

(* The listener's PID, if there is a listener, must be the emulator's.      *)
Verify(t) ==
    /\ pc[t] = "verify"
    /\ IF listener[job[t].port] \in {t, NoOne}
       THEN Goto(t, "have") /\ listed' = listed \cup {t}
       ELSE Goto(t, "failed") /\ UNCHANGED listed
    /\ UNCHANGED <<allocated, listener, flock, emu, job, closing, misfreed>>

(* Any step from the launch on may fail or be interrupted.                  *)
StartFails(t) == /\ pc[t] \in {"connect", "verify"}
                 /\ Goto(t, "failed")
                 /\ UNCHANGED <<allocated, listener, flock, emu, job, listed,
                                closing, misfreed>>

(* An emulator goes, and with it the connections to it.                     *)
Gone(e) == [u \in Threads |-> IF job[u].conn = e
                              THEN [job[u] EXCEPT !.conn = NoOne]
                              ELSE job[u]]

(* What the owners gone held, and what m still holds of the ports P, goes.  *)
Without(f, gone, m, P) ==
    [p \in Ports |-> IF f[p] \in gone \/ (p \in P /\ f[p] = m) THEN NoOne
                                                               ELSE f[p]]

(* stop(): the emulator is stopped, then its lockfiles are released.        *)
StopOf(t) == /\ emu' = [emu EXCEPT ![t] = "off"]
             /\ job' = Gone(t)
             /\ listener' = Without(listener, {t}, NoOne, {})
             /\ flock' = Without(flock, {t}, NoOne, {})

(* PortAllocator.release()                                                  *)
FreePorts(m, P) == /\ allocated' = [allocated EXCEPT ![m] = @ \ P]
                   /\ listener' = Without(listener, {}, m, P)
                   /\ flock' = Without(flock, {}, m, P)

Uses(t) == IF job[t].freed THEN {} ELSE PortsOf(t)

UsedByAnother(t, P) ==
    \E u \in Threads \ {t} : MgrOf[u] = MgrOf[t] /\ Uses(u) \cap P # {}

Failed(t) ==
    LET m == MgrOf[t]
        P == PortsOf(t)
    IN  /\ pc[t] = "failed" /\ AllocatorFree(m)
        /\ emu' = [emu EXCEPT ![t] = "off"]
        /\ allocated' = [allocated EXCEPT ![m] = @ \ P]
        /\ listener' = Without(listener, {t}, m, P)
        /\ flock' = Without(flock, {t}, m, P)
        /\ misfreed' = (misfreed \/ UsedByAnother(t, P))
        /\ job' = [Gone(t) EXCEPT ![t] = Again(job[t])]
        /\ Goto(t, AgainAt(job[t]))
        /\ UNCHANGED <<listed, closing>>

-----------------------------------------------------------------------------
(* ViceInstanceManager.release() and shutdown()                             *)

Release(t) == /\ pc[t] = "have"
              /\ listed' = listed \ {t}
              /\ StopOf(t)
              /\ Goto(t, "release")
              /\ UNCHANGED <<allocated, closing, misfreed>>

(* Another shutdown() of the instance goes on with an old one.              *)
Outlived(t) ==
    closing' = [m \in Managers |->
        {IF i.thread = t THEN [i EXCEPT !.current = FALSE] ELSE i :
            i \in closing[m]}]

ReleasePorts(t) ==
    /\ pc[t] = "release"
    /\ AllocatorFree(MgrOf[t])
    /\ FreePorts(MgrOf[t], PortsOf(t))
    /\ misfreed' = (misfreed \/ UsedByAnother(t, PortsOf(t)))
    /\ Outlived(t)
    /\ job' = [job EXCEPT ![t] = NewJob]
    /\ Goto(t, "idle")
    /\ UNCHANGED <<emu, listed>>

(* shutdown() takes the list; whoever has an instance may still release it. *)
Shutdown(m) ==
    LET mine == {t \in listed : MgrOf[t] = m}
    IN  /\ closing[m] = {} /\ mine # {} /\ m \in Closers
        /\ closing' = [closing EXCEPT ![m] =
                {[thread |-> t, ports |-> PortsOf(t), current |-> TRUE,
                  stopped |-> FALSE] : t \in mine}]
        /\ listed' = listed \ mine
        /\ UNCHANGED <<allocated, listener, flock, emu, pc, job, misfreed>>

ShutdownStop(m, i) ==
    /\ ~i.stopped
    /\ \A j \in closing[m] : ~j.stopped         \* one instance at a time
    /\ closing' = [closing EXCEPT ![m] = (@ \ {i}) \cup
                                         {[i EXCEPT !.stopped = TRUE]}]
    /\ IF i.current THEN StopOf(i.thread) 
                    ELSE UNCHANGED <<emu, listener, flock, job>>
    /\ UNCHANGED <<allocated, pc, listed, misfreed>>

ShutdownFree(m, i) ==
    /\ i.stopped
    /\ AllocatorFree(m)
    /\ closing' = [closing EXCEPT ![m] = @ \ {i}]
    /\ FreePorts(m, i.ports)
    /\ misfreed' = (misfreed \/ \E u \in Threads :
                        /\ MgrOf[u] = m /\ Uses(u) \cap i.ports # {}
                        /\ ~(u = i.thread /\ i.current))
    /\ job' = IF i.current THEN [job EXCEPT ![i.thread].freed = TRUE] ELSE job
    /\ UNCHANGED <<emu, pc, listed>>

-----------------------------------------------------------------------------
(* The emulators                                                            *)

(* A port that is taken makes no difference to the emulator: it runs on     *)
(* without that monitor.                                                    *)
EmuBind(t) == /\ emu[t] = "booting"
              /\ emu' = [emu EXCEPT ![t] = "up"]
              /\ listener' = [p \in Ports |->
                    IF p \in PortsOf(t) /\ listener[p] = NoOne
                    THEN t ELSE listener[p]]
              /\ UNCHANGED <<allocated, flock, pc, job, listed, closing,
                             misfreed>>

EmuExit(t) == /\ emu[t] # "off"
              /\ emu' = [emu EXCEPT ![t] = "off"]
              /\ listener' = Without(listener, {t}, NoOne, {})
              /\ job' = Gone(t)
              /\ UNCHANGED <<allocated, flock, pc, listed, closing, misfreed>>

OutsiderStarts(p) == /\ listener[p] = NoOne
                     /\ \A q \in Ports : listener[q] # Outsider
                     /\ listener' = [listener EXCEPT ![p] = Outsider]
                     /\ UNCHANGED <<allocated, flock, emu, pc, job, listed,
                                    closing, misfreed>>

OutsiderExits(p) == /\ listener[p] = Outsider
                    /\ listener' = [listener EXCEPT ![p] = NoOne]
                    /\ job' = Gone(Outsider)
                    /\ UNCHANGED <<allocated, flock, emu, pc, listed, closing,
                                   misfreed>>

Next == \/ \E t \in Threads :
             \/ Acquire(t) \/ ScanSkip(t) \/ ScanInUse(t) \/ ScanBind(t)
             \/ TryLock(t) \/ Exhausted(t)
             \/ Begin(t) \/ AdoptConnect(t) \/ HandOver(t)
             \/ Connect(t) \/ Verify(t) \/ StartFails(t) \/ Failed(t)
             \/ Release(t) \/ ReleasePorts(t)
             \/ EmuBind(t) \/ EmuExit(t)
        \/ \E m \in Managers :
             \/ Shutdown(m)
             \/ \E i \in closing[m] : ShutdownStop(m, i) \/ ShutdownFree(m, i)
        \/ \E p \in OutsiderPorts : OutsiderStarts(p) \/ OutsiderExits(p)

Spec == Init /\ [][Next]_vars

-----------------------------------------------------------------------------
(* Properties                                                               *)

(* Between the close of its reservation and the end of its launch a port    *)
(* stays locked for the instance that is being started ("the file lock      *)
(* persists across the socket-close -> VICE-start window"), unless shutdown *)
(* and an owner both released one instance and freed another's port.        *)
LaunchIsLocked ==
    ~misfreed => \A t \in Threads :
        pc[t] \in {"connect", "verify"} =>
            ReuseExisting[MgrOf[t]] \/ \A p \in PortsOf(t) : flock[p] = t

(* The allocator's set is exactly the ports its instances use: none is      *)
(* forgotten by a failure, a retry or a shutdown, and none is given twice.  *)
AllocatorAgrees ==
    ~misfreed =>
        /\ \A m \in Managers : \A p \in Ports :
             p \in allocated[m] <=> \E t \in Threads : MgrOf[t] = m /\ p \in Uses(t)
        /\ \A t, u \in Threads :
             MgrOf[t] = MgrOf[u] /\ t # u => Uses(t) \cap Uses(u) = {}

(* When a manager's threads are done and no shutdown is under way, it       *)
(* leaves nothing behind: no port, no reservation, no lock, no emulator.    *)
NothingLeaks ==
    \A m \in Managers :
        LET mine == {t \in Threads : MgrOf[t] = m}
        IN  closing[m] = {} /\ (\A t \in mine : pc[t] = "idle") =>
                /\ allocated[m] = {}
                /\ \A p \in Ports : /\ listener[p] \notin mine \cup {m}
                                    /\ flock[p] \notin mine \cup {m}
                /\ \A t \in mine : emu[t] = "off"

(* A launched instance is connected to its own emulator, or to one that has *)
(* gone; never to another that is alive.                                    *)
TalksToOwn ==
    \A t \in Threads :
        pc[t] = "have" /\ flock[job[t].port] = t =>
            job[t].conn \in {t, NoOne}

(* What these rest on.  One thread of a manager is in allocate() at a time, *)
(* and the port it has bound is one that its allocator has not given.       *)
Scanning(t) == pc[t] \in {"scan", "flock"}

OneScans ==
    /\ \A t, u \in Threads :
         MgrOf[t] = MgrOf[u] /\ Scanning(t) /\ Scanning(u) => t = u
    /\ \A t \in Threads :
         pc[t] = "flock" => /\ job[t].cursor \in Ports \ allocated[MgrOf[t]]
                            /\ listener[job[t].cursor] = MgrOf[t]

(* How far a launch is says which ports it has.                             *)
PortsByStep ==
    \A t \in Threads :
        /\ pc[t] = "idle" => job[t].port = NoPort
        /\ job[t].port = NoPort => pc[t] = "idle" \/ Scanning(t)
        /\ job[t].text # NoPort => ~Scanning(t) /\ pc[t] \notin {"idle", "begin", "adopt"}
        /\ job[t].freed => pc[t] \in {"have", "release"}
        /\ t \in listed => pc[t] = "have"

(* A thread has an emulator, and locks of its own, from the hand-over on.   *)
EmulatorByStep ==
    \A t \in Threads :
        /\ emu[t] # "off" \/ (\E p \in Ports : flock[p] = t)
             => pc[t] \in {"connect", "verify", "have", "failed"}
        /\ (\E p \in Ports : listener[p] = t) => emu[t] = "up"

(* Whom a launch is connected to is who listens, as long as he lives.       *)
ConnListens ==
    \A t \in Threads :
        pc[t] = "verify" /\ job[t].conn # NoOne
            => listener[job[t].port] = job[t].conn

ClosingIsMine ==
    \A m \in Managers : \A i \in closing[m] :
        /\ MgrOf[i.thread] = m
        /\ i.current => /\ pc[i.thread] \in {"have", "release"}
                        /\ i.ports = PortsOf(i.thread)

(* What a manager has on a port is on account of a thread.                  *)
OnAccount ==
    \A m \in Managers : \A p \in Ports :
        /\ p \in allocated[m] \/ flock[p] = m
             => \E t \in Threads : MgrOf[t] = m /\ p \in PortsOf(t)
        /\ listener[p] = m
             => \E t \in Threads :
                  MgrOf[t] = m /\ (p \in PortsOf(t) \/ (pc[t] = "flock" /\ p = job[t].cursor))

(* Up to the hand-over it is the manager that has the locks.                *)
LockedFromStart ==
    ~misfreed => \A t \in Threads : \A p \in PortsOf(t) :
        ReuseExisting[MgrOf[t]] \/
            /\ Scanning(t) \/ pc[t] \in {"begin", "handover"} => flock[p] = MgrOf[t]
            /\ pc[t] \in {"connect", "verify"} => flock[p] = t

IInv == /\ TypeOK /\ OneScans /\ PortsByStep /\ EmulatorByStep
        /\ ConnListens /\ ClosingIsMine /\ OnAccount
        /\ AllocatorAgrees /\ LockedFromStart /\ TalksToOwn

(* An instance is adopted from an emulator, not from the reservation of     *)
(* this very port ("If reuse_existing is True and a listener already        *)
(* exists", acquire()).                                                     *)
AdoptsNoReservation ==
    \A t \in Threads : pc[t] = "adopt" => listener[job[t].port] # MgrOf[t]

=============================================================================
