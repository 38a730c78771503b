--------------------------- MODULE VicePoolProofs ---------------------------
(* What VicePool promises, for any number of managers, threads, ports and   *)
(* retries.  IInv is inductive: one lemma per action.  Actions that do the  *)
(* same to the state share a lemma: a thread that only goes on              *)
(* (ThreadMoves), a port that is given (GotProperties), a listener that     *)
(* comes or goes (ComesOrGoes), an instance that is stopped                 *)
(* (StopProperties) and ports that are freed (FreeProperties).               *)
EXTENDS VicePool, TLAPS

USE PoolAssumption DEF Ports, NoPort

(* At the start nothing is given, locked, running or closing.               *)
LEMMA InitIInv == Init => IInv
<1> SUFFICES ASSUME Init PROVE IInv
  OBVIOUS
<1>1. NewJob \in Jobs /\ NewJob.port = 0 /\ NewJob.text = 0 /\ ~NewJob.freed
  BY DEF NewJob, Jobs
<1>2. TypeOK
  BY <1>1 DEF Init, TypeOK, Emulators
<1>3. \A t \in Threads : PortsOf(t) = {}
  BY <1>1 DEF Init, PortsOf
<1> QED
  BY <1>1, <1>2, <1>3 DEF Init, IInv, OneScans, PortsByStep, EmulatorByStep,
     ConnListens, ClosingIsMine, OnAccount, AllocatorAgrees, LockedFromStart,
     TalksToOwn, Uses, Scanning

-----------------------------------------------------------------------------
(* A thread goes from one step to the next, and nothing else changes but    *)
(* what its instance remembers: what is common to such steps.               *)
LEMMA ThreadMoves ==
    ASSUME IInv, TypeOK', NEW t \in Threads,
           UNCHANGED <<allocated, listener, flock, emu, closing, misfreed>>,
           \A u \in Threads \ {t} : pc'[u] = pc[u] /\ job'[u] = job[u],
           job'[t].port = job[t].port, job'[t].text = job[t].text,
           job'[t].freed = job[t].freed,
           pc[t] \notin {"flock", "have", "release"}, pc'[t] # "flock",
           Scanning(t)' => Scanning(t) \/ AllocatorFree(MgrOf[t])
    PROVE  /\ \A u \in Threads : PortsOf(u)' = PortsOf(u) /\ Uses(u)' = Uses(u)
           /\ OneScans' /\ ClosingIsMine' /\ OnAccount' /\ AllocatorAgrees'
<1>1. \A u \in Threads : PortsOf(u)' = PortsOf(u) /\ Uses(u)' = Uses(u)
  BY DEF PortsOf, Uses
<1>2. OneScans'
  BY DEF IInv, OneScans, AllocatorFree, Scanning
<1>3. ClosingIsMine'
  BY <1>1 DEF IInv, TypeOK, ClosingIsMine
<1>4. OnAccount'
  BY <1>1 DEF IInv, OnAccount
<1>5. AllocatorAgrees'
  BY <1>1 DEF IInv, AllocatorAgrees
<1> QED BY <1>1, <1>2, <1>3, <1>4, <1>5

(* The ports and the connection of an instance are ports and emulators.     *)
LEMMA PortsOfType ==
    ASSUME TypeOK
    PROVE  \A u \in Threads : /\ PortsOf(u) \subseteq Ports
                              /\ job[u].port \in Ports \cup {NoPort}
                              /\ job[u].conn \in Emulators \cup {NoOne}
<1> TAKE u \in Threads
<1>1. job[u] \in Jobs
  BY DEF TypeOK
<1>2. job[u].port \in Ports \cup {NoPort} /\ job[u].text \in Ports \cup {NoPort}
  BY <1>1 DEF Jobs
<1>3. job[u].conn \in Emulators \cup {NoOne}
  BY <1>1 DEF Jobs, Emulators
<1> QED BY <1>2, <1>3 DEF PortsOf

(* An instance that is not there yet has no port and no connection.         *)
LEMMA NewJobProperties ==
    /\ NewJob \in Jobs
    /\ NewJob.port = NoPort /\ NewJob.text = NoPort
    /\ NewJob.freed = FALSE /\ NewJob.conn = NoOne
  BY DEF NewJob, Jobs

(* Only the connection of one instance changes.                             *)
LEMMA ConnProperties ==
    ASSUME job \in [Threads -> Jobs], NEW t \in Threads,
           NEW conn \in Emulators \cup {NoOne},
           job' = [job EXCEPT ![t].conn = conn]
    PROVE  /\ job' \in [Threads -> Jobs]
           /\ job'[t].conn = conn
           /\ job'[t].port = job[t].port /\ job'[t].text = job[t].text
           /\ job'[t].freed = job[t].freed
           /\ \A u \in Threads \ {t} : job'[u] = job[u]
<1>1. job[t] \in Jobs
  OBVIOUS
<1>2. [job[t] EXCEPT !.conn = conn] \in Jobs
  <2>1. conn \in Threads \cup {Outsider, NoOne}
    BY DEF Emulators
  <2> QED BY <1>1, <2>1, Zenon DEF Jobs
<1>3. job' = [job EXCEPT ![t] = [job[t] EXCEPT !.conn = conn]]
  OBVIOUS
<1>4. job'[t] = [job[t] EXCEPT !.conn = conn]
  BY <1>3
<1>5. job' \in [Threads -> Jobs] /\ \A u \in Threads \ {t} : job'[u] = job[u]
  BY <1>2, <1>3
<1>6. /\ job'[t].conn = conn
      /\ job'[t].port = job[t].port /\ job'[t].text = job[t].text
      /\ job'[t].freed = job[t].freed
  BY <1>1, <1>4 DEF Jobs
<1> QED BY <1>5, <1>6

(* A retry and a give-up start from nothing.                                *)
LEMMA AgainProperties ==
    ASSUME NEW j \in Jobs
    PROVE  /\ Again(j) \in Jobs
           /\ Again(j).port = NoPort /\ Again(j).text = NoPort
           /\ Again(j).freed = FALSE /\ Again(j).conn = NoOne
           /\ AgainAt(j) \in {"scan", "idle"}
<1> DEFINE n == j.attempt + 1
<1>1. j.attempt < MaxRetries => n \in 1 .. MaxRetries
  BY DEF Jobs
<1>2. Again(j) = IF j.attempt < MaxRetries THEN [NewJob EXCEPT !.attempt = n] ELSE NewJob
  BY DEF Again
<1> HIDE DEF n
<1> QED BY <1>1, <1>2, NewJobProperties DEF Jobs, AgainAt

(* acquire() takes the allocator when no other thread is in it.             *)
LEMMA AcquireIInv ==
    ASSUME IInv, NEW t \in Threads, Acquire(t) PROVE IInv'
<1>1. /\ pc[t] = "idle" /\ pc' = [pc EXCEPT ![t] = "scan"]
      /\ job' = [job EXCEPT ![t] = NewJob] /\ AllocatorFree(MgrOf[t])
      /\ UNCHANGED <<allocated, listener, flock, emu, listed, closing, misfreed>>
  BY DEF Acquire, Goto
<1>2. /\ pc'[t] = "scan" /\ job'[t] = NewJob
      /\ \A u \in Threads \ {t} : pc'[u] = pc[u] /\ job'[u] = job[u]
      /\ job[t].port = NoPort /\ job[t].text = NoPort /\ job[t].freed = FALSE
  BY <1>1 DEF IInv, TypeOK, PortsByStep, Jobs
<1>3. TypeOK'
  BY <1>1, NewJobProperties DEF IInv, TypeOK
<1>4. /\ \A u \in Threads : PortsOf(u)' = PortsOf(u) /\ Uses(u)' = Uses(u)
      /\ OneScans' /\ ClosingIsMine' /\ OnAccount' /\ AllocatorAgrees'
  BY <1>1, <1>2, <1>3, ThreadMoves, NewJobProperties
<1>5. PortsOf(t) = {}
  BY <1>2 DEF PortsOf
<1>6. PortsByStep'
  BY <1>1, <1>2, NewJobProperties DEF IInv, PortsByStep, Scanning
<1>7. EmulatorByStep'
  BY <1>1, <1>2 DEF IInv, EmulatorByStep
<1>8. ConnListens' /\ TalksToOwn'
  BY <1>1, <1>2 DEF IInv, ConnListens, TalksToOwn
<1>9. LockedFromStart'
  BY <1>1, <1>2, <1>4, <1>5 DEF IInv, LockedFromStart, Scanning
<1> QED BY <1>3, <1>4, <1>6, <1>7, <1>8, <1>9 DEF IInv

(* allocate() passes over a port that is given or in use.                   *)
LEMMA ScanSkipIInv ==
    ASSUME IInv, NEW t \in Threads, ScanSkip(t) PROVE IInv'
<1> DEFINE p == job[t].cursor + 1
<1>1. /\ pc[t] = "scan" /\ job[t].cursor \in Ports
      /\ job' = [job EXCEPT ![t].cursor = p]
      /\ UNCHANGED <<allocated, listener, flock, emu, pc, listed, closing, misfreed>>
  BY DEF ScanSkip
<1>2. job \in [Threads -> Jobs] /\ p \in 1 .. LastPort + 1
  BY <1>1 DEF IInv, TypeOK
<1> HIDE DEF p
<1>3. job' \in [Threads -> Jobs]
  BY <1>1, <1>2 DEF Jobs
<1>4. /\ \A u \in Threads \ {t} : pc'[u] = pc[u] /\ job'[u] = job[u]
      /\ job'[t].port = job[t].port /\ job'[t].text = job[t].text
      /\ job'[t].freed = job[t].freed /\ pc'[t] = pc[t]
  BY <1>1, <1>2
<1>5. TypeOK'
  BY <1>1, <1>3 DEF IInv, TypeOK
<1>6. /\ \A u \in Threads : PortsOf(u)' = PortsOf(u) /\ Uses(u)' = Uses(u)
      /\ OneScans' /\ ClosingIsMine' /\ OnAccount' /\ AllocatorAgrees'
  <2>1. Scanning(t)' => Scanning(t)
    BY <1>4 DEF Scanning
  <2> QED BY <1>1, <1>4, <1>5, <2>1, ThreadMoves
<1>7. PortsByStep'
  BY <1>1, <1>4 DEF IInv, PortsByStep, Scanning
<1>8. EmulatorByStep'
  BY <1>1, <1>4 DEF IInv, EmulatorByStep
<1>9. ConnListens' /\ TalksToOwn'
  BY <1>1, <1>4 DEF IInv, ConnListens, TalksToOwn
<1>10. LockedFromStart'
  BY <1>1, <1>4, <1>6 DEF IInv, LockedFromStart, Scanning
<1> QED BY <1>5, <1>6, <1>7, <1>8, <1>9, <1>10 DEF IInv

(* allocate() finds no port: the launch fails, is retried or given up.      *)
LEMMA ExhaustedIInv ==
    ASSUME IInv, NEW t \in Threads, Exhausted(t) PROVE IInv'
<1>0. /\ pc[t] = "scan" /\ job[t] \in Jobs
      /\ UNCHANGED <<allocated, listener, flock, emu, listed, closing, misfreed>>
  BY DEF Exhausted, IInv, TypeOK
<1>1. CASE WantsText(t)
  <2>1. pc' = [pc EXCEPT ![t] = "failed"] /\ job' = job
    BY <1>1 DEF Exhausted, Goto
  <2>2. pc'[t] = "failed" /\ \A u \in Threads \ {t} : pc'[u] = pc[u]
    BY <2>1 DEF IInv, TypeOK
  <2>3. TypeOK'
    BY <1>0, <2>1 DEF IInv, TypeOK
  <2>4. /\ \A u \in Threads : PortsOf(u)' = PortsOf(u) /\ Uses(u)' = Uses(u)
        /\ OneScans' /\ ClosingIsMine' /\ OnAccount' /\ AllocatorAgrees'
    <3>1. ~Scanning(t)'
      BY <2>2 DEF Scanning
    <3> QED BY <1>0, <2>1, <2>2, <2>3, <3>1, ThreadMoves
  <2>5. PortsByStep'
    BY <1>0, <1>1, <2>1, <2>2 DEF IInv, PortsByStep, Scanning, WantsText
  <2>6. EmulatorByStep'
    BY <1>0, <2>1, <2>2 DEF IInv, EmulatorByStep
  <2>7. ConnListens' /\ TalksToOwn'
    BY <1>0, <2>1, <2>2 DEF IInv, ConnListens, TalksToOwn
  <2>8. LockedFromStart'
    BY <1>0, <2>1, <2>2, <2>4 DEF IInv, LockedFromStart, Scanning
  <2> QED BY <2>3, <2>4, <2>5, <2>6, <2>7, <2>8 DEF IInv
<1>2. CASE ~WantsText(t)
  <2>1. /\ job' = [job EXCEPT ![t] = Again(job[t])]
        /\ pc' = [pc EXCEPT ![t] = AgainAt(job[t])]
    BY <1>2 DEF Exhausted, Goto
  <2>2. /\ pc'[t] \in {"scan", "idle"} /\ job'[t] = Again(job[t])
        /\ \A u \in Threads \ {t} : pc'[u] = pc[u] /\ job'[u] = job[u]
    BY <1>0, <2>1, AgainProperties DEF IInv, TypeOK
  <2>3. /\ job'[t] \in Jobs
        /\ job'[t].port = NoPort /\ job'[t].text = NoPort
        /\ job'[t].freed = FALSE /\ job'[t].conn = NoOne
        /\ job[t].port = NoPort /\ job[t].text = NoPort /\ job[t].freed = FALSE
    <3>1. /\ Again(job[t]) \in Jobs
          /\ Again(job[t]).port = NoPort /\ Again(job[t]).text = NoPort
          /\ Again(job[t]).freed = FALSE /\ Again(job[t]).conn = NoOne
      BY <1>0, AgainProperties
    <3>2. job[t].port = NoPort /\ job[t].text = NoPort
      BY <1>0, <1>2 DEF IInv, PortsByStep, WantsText, Scanning
    <3>3. job[t].freed = FALSE
      BY <1>0 DEF IInv, PortsByStep, Jobs
    <3> QED BY <2>2, <3>1, <3>2, <3>3
  <2>4. TypeOK'
    BY <1>0, <2>1, <2>2, <2>3 DEF IInv, TypeOK
  <2>5. /\ \A u \in Threads : PortsOf(u)' = PortsOf(u) /\ Uses(u)' = Uses(u)
        /\ OneScans' /\ ClosingIsMine' /\ OnAccount' /\ AllocatorAgrees'
    <3>1. Scanning(t)
      BY <1>0 DEF Scanning
    <3> QED BY <1>0, <2>2, <2>3, <2>4, <3>1, ThreadMoves
  <2>6. PortsByStep'
    BY <1>0, <2>2, <2>3 DEF IInv, PortsByStep, Scanning
  <2>7. EmulatorByStep'
    BY <1>0, <2>2 DEF IInv, EmulatorByStep
  <2>8. ConnListens' /\ TalksToOwn'
    BY <1>0, <2>2 DEF IInv, ConnListens, TalksToOwn
  <2>9. LockedFromStart'
    BY <1>0, <2>2, <2>5 DEF IInv, LockedFromStart, Scanning
  <2> QED BY <2>4, <2>5, <2>6, <2>7, <2>8, <2>9 DEF IInv
<1> QED BY <1>1, <1>2

(* The launch adopts, asks for a text monitor's port, or goes on.           *)
LEMMA BeginIInv ==
    ASSUME IInv, NEW t \in Threads, Begin(t) PROVE IInv'
<1>1. PICK step \in {"adopt", "scan", "handover"} :
        /\ pc' = [pc EXCEPT ![t] = step]
        /\ step = "adopt" => ReuseExisting[MgrOf[t]]
        /\ step = "scan" => AllocatorFree(MgrOf[t])
  BY DEF Begin, Goto
<1>2. /\ pc[t] = "begin" /\ job' = job
      /\ UNCHANGED <<allocated, listener, flock, emu, listed, closing, misfreed>>
  BY DEF Begin
<1>3. pc'[t] = step /\ \A u \in Threads \ {t} : pc'[u] = pc[u]
  BY <1>1 DEF IInv, TypeOK
<1>4. TypeOK'
  BY <1>1, <1>2 DEF IInv, TypeOK
<1>5. /\ \A u \in Threads : PortsOf(u)' = PortsOf(u) /\ Uses(u)' = Uses(u)
      /\ OneScans' /\ ClosingIsMine' /\ OnAccount' /\ AllocatorAgrees'
  <2>1. Scanning(t)' => AllocatorFree(MgrOf[t])
    BY <1>1, <1>3 DEF Scanning
  <2> QED BY <1>1, <1>2, <1>3, <1>4, <2>1, ThreadMoves
<1>6. PortsByStep'
  BY <1>2, <1>3 DEF IInv, PortsByStep, Scanning
<1>7. EmulatorByStep'
  BY <1>2, <1>3 DEF IInv, EmulatorByStep
<1>8. ConnListens' /\ TalksToOwn'
  BY <1>2, <1>3 DEF IInv, ConnListens, TalksToOwn
<1>9. LockedFromStart'
  BY <1>1, <1>2, <1>3, <1>5 DEF IInv, LockedFromStart, Scanning
<1> QED BY <1>4, <1>5, <1>6, <1>7, <1>8, <1>9 DEF IInv

(* An adopted emulator was listening, and its port has no lock of the       *)
(* instance's own.                                                          *)
LEMMA AdoptConnectIInv ==
    ASSUME IInv, NEW t \in Threads, AdoptConnect(t) PROVE IInv'
<1>1. PICK conn \in Emulators \cup {NoOne}, step \in {"have", "failed"} :
        /\ pc' = [pc EXCEPT ![t] = step]
        /\ \/ job' = [job EXCEPT ![t].conn = conn]
           \/ job' = job
        /\ listed' = IF step = "have" THEN listed \cup {t} ELSE listed
  BY DEF AdoptConnect, Goto
<1>2. /\ pc[t] = "adopt"
      /\ UNCHANGED <<allocated, listener, flock, emu, closing, misfreed>>
  BY DEF AdoptConnect
<1>3. /\ pc'[t] = step
      /\ \A u \in Threads \ {t} : pc'[u] = pc[u] /\ job'[u] = job[u]
      /\ job'[t].port = job[t].port /\ job'[t].text = job[t].text
      /\ job'[t].freed = job[t].freed
      /\ job' \in [Threads -> Jobs]
  <2>1. pc'[t] = step /\ \A u \in Threads \ {t} : pc'[u] = pc[u]
    BY <1>1 DEF IInv, TypeOK
  <2> QED BY <1>1, <2>1, ConnProperties DEF IInv, TypeOK
<1>4. TypeOK'
  BY <1>1, <1>2, <1>3 DEF IInv, TypeOK
<1>5. /\ \A u \in Threads : PortsOf(u)' = PortsOf(u) /\ Uses(u)' = Uses(u)
      /\ OneScans' /\ ClosingIsMine' /\ OnAccount' /\ AllocatorAgrees'
  <2>1. ~Scanning(t)'
    BY <1>1, <1>3 DEF Scanning
  <2> QED BY <1>1, <1>2, <1>3, <1>4, <2>1, ThreadMoves
<1>6. PortsByStep'
  BY <1>1, <1>2, <1>3 DEF IInv, PortsByStep, Scanning
<1>7. EmulatorByStep'
  BY <1>1, <1>2, <1>3 DEF IInv, EmulatorByStep
<1>8. \A p \in Ports : flock[p] # t
  BY <1>2 DEF IInv, EmulatorByStep
<1>9. ConnListens'
  BY <1>1, <1>2, <1>3 DEF IInv, ConnListens
<1>10. TalksToOwn'
  <2>1. job[t].port \in Ports
    BY <1>2 DEF IInv, TypeOK, Jobs, PortsByStep, Scanning
  <2> QED BY <1>2, <1>3, <1>8, <2>1 DEF IInv, TalksToOwn
<1>11. LockedFromStart'
  BY <1>1, <1>2, <1>3, <1>5 DEF IInv, LockedFromStart, Scanning
<1> QED BY <1>4, <1>5, <1>6, <1>7, <1>9, <1>10, <1>11 DEF IInv

(* The transport connects to whoever listens.                               *)
LEMMA ConnectIInv ==
    ASSUME IInv, NEW t \in Threads, Connect(t) PROVE IInv'
<1> DEFINE conn == listener[job[t].port]
<1>1. /\ pc[t] = "connect" /\ conn \in Emulators
      /\ pc' = [pc EXCEPT ![t] = "verify"]
      /\ job' = [job EXCEPT ![t].conn = conn]
      /\ UNCHANGED <<allocated, listener, flock, emu, listed, closing, misfreed>>
  BY DEF Connect, Goto
<1> HIDE DEF conn
<1>2. /\ pc'[t] = "verify" /\ job'[t].conn = conn
      /\ \A u \in Threads \ {t} : pc'[u] = pc[u] /\ job'[u] = job[u]
      /\ job'[t].port = job[t].port /\ job'[t].text = job[t].text
      /\ job'[t].freed = job[t].freed
      /\ job' \in [Threads -> Jobs]
  <2>1. pc'[t] = "verify" /\ \A u \in Threads \ {t} : pc'[u] = pc[u]
    BY <1>1 DEF IInv, TypeOK
  <2> QED BY <1>1, <2>1, ConnProperties DEF IInv, TypeOK
<1>3. TypeOK'
  BY <1>1, <1>2 DEF IInv, TypeOK
<1>4. /\ \A u \in Threads : PortsOf(u)' = PortsOf(u) /\ Uses(u)' = Uses(u)
      /\ OneScans' /\ ClosingIsMine' /\ OnAccount' /\ AllocatorAgrees'
  <2>1. ~Scanning(t)'
    BY <1>2 DEF Scanning
  <2> QED BY <1>1, <1>2, <1>3, <2>1, ThreadMoves
<1>5. PortsByStep'
  BY <1>1, <1>2 DEF IInv, PortsByStep, Scanning
<1>6. EmulatorByStep'
  BY <1>1, <1>2 DEF IInv, EmulatorByStep
<1>7. ConnListens'
  BY <1>1, <1>2 DEF IInv, ConnListens, conn
<1>8. TalksToOwn'
  BY <1>1, <1>2 DEF IInv, TalksToOwn
<1>9. LockedFromStart'
  BY <1>1, <1>2, <1>4 DEF IInv, LockedFromStart, Scanning
<1> QED BY <1>3, <1>4, <1>5, <1>6, <1>7, <1>8, <1>9 DEF IInv

(* A launch whose listener is not its emulator fails.                       *)
LEMMA VerifyIInv ==
    ASSUME IInv, NEW t \in Threads, Verify(t) \/ StartFails(t) PROVE IInv'
<1>1. PICK step \in {"have", "failed"} :
        /\ pc' = [pc EXCEPT ![t] = step]
        /\ step = "have" => /\ pc[t] = "verify"
                            /\ listener[job[t].port] \in {t, NoOne}
        /\ listed' = IF step = "have" THEN listed \cup {t} ELSE listed
  BY DEF Verify, StartFails, Goto
<1>2. /\ pc[t] \in {"connect", "verify"} /\ job' = job
      /\ UNCHANGED <<allocated, listener, flock, emu, closing, misfreed>>
  BY DEF Verify, StartFails
<1>3. pc'[t] = step /\ \A u \in Threads \ {t} : pc'[u] = pc[u]
  BY <1>1 DEF IInv, TypeOK
<1>4. TypeOK'
  BY <1>1, <1>2 DEF IInv, TypeOK
<1>5. /\ \A u \in Threads : PortsOf(u)' = PortsOf(u) /\ Uses(u)' = Uses(u)
      /\ OneScans' /\ ClosingIsMine' /\ OnAccount' /\ AllocatorAgrees'
  <2>1. ~Scanning(t)'
    BY <1>3 DEF Scanning
  <2> QED BY <1>1, <1>2, <1>3, <1>4, <2>1, ThreadMoves
<1>6. PortsByStep'
  BY <1>1, <1>2, <1>3 DEF IInv, PortsByStep, Scanning
<1>7. EmulatorByStep'
  BY <1>1, <1>2, <1>3 DEF IInv, EmulatorByStep
<1>8. ConnListens' /\ TalksToOwn'
  BY <1>1, <1>2, <1>3 DEF IInv, ConnListens, TalksToOwn
<1>9. LockedFromStart'
  BY <1>2, <1>3, <1>5 DEF IInv, LockedFromStart, Scanning
<1> QED BY <1>4, <1>5, <1>6, <1>7, <1>8, <1>9 DEF IInv

(* A port is given to a thread and comes into the allocator's set.          *)
LEMMA GotProperties ==
    ASSUME IInv, NEW t \in Threads, Scanning(t), Got(t),
           NEW p, p = job[t].cursor, p \in Ports \ allocated[MgrOf[t]],
           allocated' = [allocated EXCEPT ![MgrOf[t]] = @ \cup {p}],
           UNCHANGED <<listener, listed, closing, misfreed>>
    PROVE  /\ job' \in [Threads -> Jobs]
           /\ allocated' \in [Managers -> SUBSET Ports]
           /\ \A u \in Threads \ {t} : /\ pc'[u] = pc[u] /\ job'[u] = job[u]
                                       /\ PortsOf(u)' = PortsOf(u)
           /\ PortsOf(t)' = PortsOf(t) \cup {p}
           /\ pc' = [pc EXCEPT ![t] = pc'[t]] /\ pc'[t] \in {"begin", "handover"}
           /\ OneScans' /\ PortsByStep' /\ ClosingIsMine' /\ AllocatorAgrees'
<1>0. /\ job \in [Threads -> Jobs] /\ job[t] \in Jobs
      /\ pc[t] \in {"scan", "flock"} /\ MgrOf[t] \in Managers
  BY DEF IInv, TypeOK, Scanning
<1>1. /\ job[t].text = NoPort /\ job[t].freed = FALSE
      /\ job[t].port \in Ports \cup {NoPort}
  BY <1>0 DEF IInv, PortsByStep, Scanning, Jobs
<1> DEFINE j == job'[t]
<1>2. /\ job' \in [Threads -> Jobs]
      /\ \A u \in Threads \ {t} : pc'[u] = pc[u] /\ job'[u] = job[u]
      /\ pc' = [pc EXCEPT ![t] = pc'[t]] /\ pc'[t] \in {"begin", "handover"}
      /\ IF job[t].port = NoPort
         THEN j.port = p /\ j.text = NoPort /\ pc'[t] = "begin"
         ELSE j.port = job[t].port /\ j.text = p /\ pc'[t] = "handover"
      /\ j.freed = FALSE
  <2>1. 1 \in 1 .. LastPort + 1 /\ p \in Ports \cup {NoPort}
    OBVIOUS
  <2>2. CASE job[t].port # NoPort
    <3>1. /\ job' = [job EXCEPT ![t] = [job[t] EXCEPT !.text = p, !.cursor = 1]]
          /\ pc' = [pc EXCEPT ![t] = "handover"]
      BY <1>0, <2>2 DEF Got, WantsText, Goto
    <3>2. [job[t] EXCEPT !.text = p, !.cursor = 1] \in Jobs
      BY <1>0, <2>1, Zenon DEF Jobs
    <3>3. /\ pc'[t] = "handover" /\ \A u \in Threads \ {t} : pc'[u] = pc[u]
      BY <3>1 DEF IInv, TypeOK
    <3>4. /\ job' \in [Threads -> Jobs]
          /\ \A u \in Threads \ {t} : job'[u] = job[u]
          /\ job'[t] = [job[t] EXCEPT !.text = p, !.cursor = 1]
      BY <1>0, <3>1, <3>2
    <3>5. /\ job'[t].port = job[t].port /\ job'[t].text = p
          /\ job'[t].freed = FALSE
      BY <1>0, <1>1, <3>4 DEF Jobs
    <3> QED BY <2>2, <3>1, <3>3, <3>4, <3>5
  <2>3. CASE job[t].port = NoPort
    <3>1. /\ job' = [job EXCEPT ![t] = [job[t] EXCEPT !.port = p, !.cursor = 1]]
          /\ pc' = [pc EXCEPT ![t] = "begin"]
      BY <1>0, <2>3 DEF Got, WantsText, Goto
    <3>2. [job[t] EXCEPT !.port = p, !.cursor = 1] \in Jobs
      BY <1>0, <2>1, Zenon DEF Jobs
    <3>3. /\ pc'[t] = "begin" /\ \A u \in Threads \ {t} : pc'[u] = pc[u]
      BY <3>1 DEF IInv, TypeOK
    <3>4. /\ job' \in [Threads -> Jobs]
          /\ \A u \in Threads \ {t} : job'[u] = job[u]
          /\ job'[t] = [job[t] EXCEPT !.port = p, !.cursor = 1]
      BY <1>0, <3>1, <3>2
    <3>5. /\ job'[t].port = p /\ job'[t].text = NoPort
          /\ job'[t].freed = FALSE
      BY <1>0, <1>1, <3>4 DEF Jobs
    <3> QED BY <2>3, <3>1, <3>3, <3>4, <3>5
  <2> QED BY <2>2, <2>3
<1> HIDE DEF j
<1>3. \A u \in Threads \ {t} : PortsOf(u)' = PortsOf(u) /\ Uses(u)' = Uses(u)
  BY <1>2 DEF PortsOf, Uses
<1>4. /\ PortsOf(t)' = PortsOf(t) \cup {p}
      /\ Uses(t) = PortsOf(t) /\ Uses(t)' = PortsOf(t)'
  BY <1>1, <1>2 DEF PortsOf, Uses, j
<1>5. /\ allocated' \in [Managers -> SUBSET Ports]
      /\ allocated'[MgrOf[t]] = allocated[MgrOf[t]] \cup {p}
      /\ \A m \in Managers \ {MgrOf[t]} : allocated'[m] = allocated[m]
  BY <1>0 DEF IInv, TypeOK
<1>6. OneScans'
  BY <1>0, <1>2, <1>5 DEF IInv, OneScans, Scanning
<1>7. PortsByStep'
  BY <1>0, <1>1, <1>2 DEF IInv, PortsByStep, Scanning, j
<1>8. ClosingIsMine'
  BY <1>0, <1>2, <1>3 DEF IInv, TypeOK, ClosingIsMine
<1>9. AllocatorAgrees'
  <2>1. SUFFICES ASSUME ~misfreed PROVE AllocatorAgrees'
    BY DEF AllocatorAgrees
  <2>2. ASSUME NEW m \in Managers, NEW q \in Ports
        PROVE  q \in allocated'[m]
                 <=> \E u \in Threads : MgrOf[u] = m /\ q \in Uses(u)'
    BY <1>3, <1>4, <1>5, <2>1 DEF IInv, AllocatorAgrees
  <2>3. ASSUME NEW u \in Threads \ {t}, MgrOf[u] = MgrOf[t]
        PROVE  p \notin Uses(u)
    BY <1>0, <2>1, <2>3 DEF IInv, AllocatorAgrees
  <2>4. ASSUME NEW u \in Threads, NEW v \in Threads, MgrOf[u] = MgrOf[v], u # v
        PROVE  Uses(u)' \cap Uses(v)' = {}
    BY <1>3, <1>4, <2>1, <2>3, <2>4 DEF IInv, AllocatorAgrees
  <2> QED BY <2>2, <2>4 DEF AllocatorAgrees
<1> QED BY <1>2, <1>3, <1>4, <1>5, <1>6, <1>7, <1>8, <1>9

(* A port in use is given without a reservation.                            *)
LEMMA ScanInUseIInv ==
    ASSUME IInv, NEW t \in Threads, ScanInUse(t) PROVE IInv'
<1> DEFINE p == job[t].cursor
<1>1. /\ pc[t] = "scan" /\ p \in Ports \ allocated[MgrOf[t]]
      /\ AllowInUse(t) /\ Got(t)
      /\ allocated' = [allocated EXCEPT ![MgrOf[t]] = @ \cup {p}]
      /\ UNCHANGED <<listener, flock, emu, listed, closing, misfreed>>
  BY DEF ScanInUse
<1> HIDE DEF p
<1>2. /\ job' \in [Threads -> Jobs]
      /\ allocated' \in [Managers -> SUBSET Ports]
      /\ \A u \in Threads \ {t} : /\ pc'[u] = pc[u] /\ job'[u] = job[u]
                                  /\ PortsOf(u)' = PortsOf(u)
      /\ PortsOf(t)' = PortsOf(t) \cup {p}
      /\ pc' = [pc EXCEPT ![t] = pc'[t]] /\ pc'[t] \in {"begin", "handover"}
      /\ OneScans' /\ PortsByStep' /\ ClosingIsMine' /\ AllocatorAgrees'
  <2>1. Scanning(t) /\ p = job[t].cursor
    BY <1>1 DEF Scanning, p
  <2> QED BY <1>1, <2>1, GotProperties
<1>3. TypeOK'
  BY <1>1, <1>2 DEF IInv, TypeOK
<1>4. EmulatorByStep'
  BY <1>1, <1>2 DEF IInv, EmulatorByStep
<1>5. ConnListens' /\ TalksToOwn'
  BY <1>1, <1>2 DEF IInv, ConnListens, TalksToOwn
<1>6. OnAccount'
  <2>1. \A u \in Threads : PortsOf(u) \subseteq PortsOf(u)'
    BY <1>2
  <2>2. p \in PortsOf(t)'
    BY <1>2
  <2>3. \A m \in Managers, q \in Ports : q \in allocated'[m]
            => q \in allocated[m] \/ (m = MgrOf[t] /\ q = p)
    BY <1>1 DEF IInv, TypeOK
  <2>4. pc[t] # "flock" /\ \A u \in Threads : pc[u] = "flock" =>
            pc'[u] = "flock" /\ job'[u] = job[u]
    BY <1>1, <1>2
  <2> QED BY <1>1, <2>1, <2>2, <2>3, <2>4 DEF IInv, OnAccount
<1>7. LockedFromStart'
  BY <1>1, <1>2 DEF IInv, LockedFromStart, Scanning, AllowInUse
<1> QED BY <1>2, <1>3, <1>4, <1>5, <1>6, <1>7 DEF IInv

(* The reservation is bound before the lock is tried.                       *)
LEMMA ScanBindIInv ==
    ASSUME IInv, NEW t \in Threads, ScanBind(t) PROVE IInv'
<1> DEFINE p == job[t].cursor
           m == MgrOf[t]
<1>1. /\ pc[t] = "scan" /\ p \in Ports \ allocated[m]
      /\ listener[p] = NoOne /\ listener' = [listener EXCEPT ![p] = m]
      /\ pc' = [pc EXCEPT ![t] = "flock"]
      /\ UNCHANGED <<allocated, flock, emu, job, listed, closing, misfreed>>
  BY DEF ScanBind, Goto
<1>2. /\ pc'[t] = "flock" /\ \A u \in Threads \ {t} : pc'[u] = pc[u]
      /\ listener'[p] = m /\ \A q \in Ports \ {p} : listener'[q] = listener[q]
      /\ m \in Managers /\ m \notin Emulators
  BY <1>1 DEF IInv, TypeOK, Emulators
<1>3. \A u \in Threads : PortsOf(u)' = PortsOf(u) /\ Uses(u)' = Uses(u)
  BY <1>1 DEF PortsOf, Uses
<1>4. TypeOK'
  BY <1>1, <1>2 DEF IInv, TypeOK
<1>5. OneScans'
  BY <1>1, <1>2 DEF IInv, OneScans, Scanning
<1>6. PortsByStep'
  BY <1>1, <1>2 DEF IInv, PortsByStep, Scanning
<1>7. EmulatorByStep'
  BY <1>1, <1>2 DEF IInv, EmulatorByStep, Emulators
<1>8. ConnListens'
  <2>1. ASSUME NEW u \in Threads, pc[u] = "verify", job[u].conn # NoOne
        PROVE  job[u].port # p /\ job[u].port \in Ports
    <3>1. listener[job[u].port] = job[u].conn
      BY <2>1 DEF IInv, ConnListens
    <3>2. job[u].port # NoPort /\ job[u].port \in Ports \cup {NoPort}
      BY <2>1 DEF IInv, TypeOK, Jobs, PortsByStep, Scanning
    <3> QED BY <1>1, <2>1, <3>1, <3>2
  <2> QED BY <1>1, <1>2, <2>1 DEF IInv, ConnListens
<1>9. TalksToOwn'
  BY <1>1, <1>2 DEF IInv, TalksToOwn
<1>10. ClosingIsMine'
  BY <1>1, <1>2, <1>3 DEF IInv, TypeOK, ClosingIsMine
<1>11. OnAccount'
  BY <1>1, <1>2, <1>3 DEF IInv, OnAccount
<1>12. AllocatorAgrees'
  BY <1>1, <1>3 DEF IInv, AllocatorAgrees
<1>13. LockedFromStart'
  BY <1>1, <1>2, <1>3 DEF IInv, LockedFromStart, Scanning
<1> QED BY <1>4, <1>5, <1>6, <1>7, <1>8, <1>9, <1>10, <1>11, <1>12, <1>13 DEF IInv

(* A port is given when its lock is had; a refused one is let go again.     *)
LEMMA TryLockIInv ==
    ASSUME IInv, NEW t \in Threads, TryLock(t) PROVE IInv'
<1> DEFINE p == job[t].cursor
           m == MgrOf[t]
<1>0. /\ pc[t] = "flock" /\ UNCHANGED <<emu, listed, closing, misfreed>>
      /\ p \in Ports \ allocated[m] /\ listener[p] = m /\ Scanning(t)
      /\ m \in Managers /\ m \notin Threads /\ m # NoOne
  BY DEF TryLock, IInv, OneScans, Scanning
<1>1. CASE /\ flock[p] = NoOne
           /\ flock' = [flock EXCEPT ![p] = m]
           /\ allocated' = [allocated EXCEPT ![m] = @ \cup {p}]
           /\ Got(t)
           /\ UNCHANGED listener
  <2>1. /\ flock'[p] = m /\ \A q \in Ports \ {p} : flock'[q] = flock[q]
        /\ flock' \in [Ports -> Managers \cup Threads \cup {NoOne}]
    BY <1>0, <1>1 DEF IInv, TypeOK
  <2> HIDE DEF p
  <2>2. /\ job' \in [Threads -> Jobs]
        /\ allocated' \in [Managers -> SUBSET Ports]
        /\ \A u \in Threads \ {t} : /\ pc'[u] = pc[u] /\ job'[u] = job[u]
                                    /\ PortsOf(u)' = PortsOf(u)
        /\ PortsOf(t)' = PortsOf(t) \cup {p}
        /\ pc' = [pc EXCEPT ![t] = pc'[t]] /\ pc'[t] \in {"begin", "handover"}
        /\ OneScans' /\ PortsByStep' /\ ClosingIsMine' /\ AllocatorAgrees'
    <3>1. p = job[t].cursor
      BY DEF p
    <3> QED BY <1>0, <1>1, <3>1, GotProperties
  <2>3. TypeOK'
    BY <1>0, <1>1, <2>1, <2>2 DEF IInv, TypeOK
  <2>4. EmulatorByStep'
    BY <1>0, <1>1, <2>1, <2>2 DEF IInv, EmulatorByStep
  <2>5. ConnListens'
    BY <1>0, <1>1, <2>2 DEF IInv, ConnListens
  <2>6. TalksToOwn'
    <3>1. ASSUME NEW u \in Threads, pc'[u] = "have", flock'[job'[u].port] = u
          PROVE  job'[u].conn \in {u, NoOne}
      <4>1. u # t /\ pc[u] = "have" /\ job'[u] = job[u]
        BY <2>2, <3>1
      <4>2. job[u].port \in Ports
        BY <4>1 DEF IInv, TypeOK, Jobs, PortsByStep, Scanning
      <4>3. flock[job[u].port] = u
        BY <1>0, <2>1, <3>1, <4>1, <4>2
      <4> QED BY <4>1, <4>3 DEF IInv, TalksToOwn
    <3> QED BY <3>1 DEF TalksToOwn
  <2>7. OnAccount'
    <3>1. \A u \in Threads : PortsOf(u) \subseteq PortsOf(u)'
      BY <2>2
    <3>2. p \in PortsOf(t)'
      BY <2>2
    <3>3. \A n \in Managers, q \in Ports :
            /\ q \in allocated'[n] => q \in allocated[n] \/ (n = m /\ q = p)
            /\ flock'[q] = n => flock[q] = n \/ (n = m /\ q = p)
      BY <1>1, <2>1 DEF IInv, TypeOK
    <3>4. \A u \in Threads : pc[u] = "flock" =>
            (pc'[u] = "flock" /\ job'[u] = job[u]) \/ (u = t /\ job[u].cursor = p)
      BY <1>0, <2>2 DEF p
    <3> QED BY <1>1, <3>1, <3>2, <3>3, <3>4 DEF IInv, OnAccount
  <2>8. LockedFromStart'
    <3>1. ASSUME ~misfreed, NEW u \in Threads \ {t}, NEW q \in PortsOf(u)'
          PROVE  ReuseExisting[MgrOf[u]] \/
            /\ Scanning(u)' \/ pc'[u] \in {"begin", "handover"} => flock'[q] = MgrOf[u]
            /\ pc'[u] \in {"connect", "verify"} => flock'[q] = u
      <4>1. q \in Ports /\ q \in PortsOf(u)
        BY <2>2, <3>1, PortsOfType DEF IInv
      <4>2. MgrOf[u] # NoOne /\ u # NoOne
        OBVIOUS
      <4> QED BY <1>1, <2>1, <2>2, <3>1, <4>1, <4>2 DEF IInv, LockedFromStart, Scanning
    <3>2. ASSUME ~misfreed, NEW q \in PortsOf(t)'
          PROVE  ReuseExisting[MgrOf[t]] \/ flock'[q] = MgrOf[t]
      <4>1. q = p \/ (q \in PortsOf(t) /\ q \in Ports)
        BY <2>2, <3>2, PortsOfType DEF IInv
      <4> QED BY <1>0, <2>1, <3>2, <4>1 DEF IInv, LockedFromStart
    <3> QED BY <1>0, <2>2, <3>1, <3>2 DEF LockedFromStart
  <2> QED BY <2>2, <2>3, <2>4, <2>5, <2>6, <2>7, <2>8 DEF IInv
<1>2. CASE /\ flock[p] # NoOne
           /\ listener' = [listener EXCEPT ![p] = NoOne]
           /\ job' = [job EXCEPT ![t].cursor = p + 1]
           /\ Goto(t, "scan")
           /\ UNCHANGED <<flock, allocated>>
  <2> DEFINE n == p + 1
  <2>1. /\ job' \in [Threads -> Jobs]
        /\ \A u \in Threads \ {t} : job'[u] = job[u]
        /\ job'[t].port = job[t].port /\ job'[t].text = job[t].text
        /\ job'[t].freed = job[t].freed
    <3>1. n \in 1 .. LastPort + 1 /\ job[t] \in Jobs /\ job \in [Threads -> Jobs]
      BY <1>0 DEF IInv, TypeOK
    <3>2. job' = [job EXCEPT ![t] = [job[t] EXCEPT !.cursor = n]]
      BY <1>2
    <3> HIDE DEF n
    <3>3. [job[t] EXCEPT !.cursor = n] \in Jobs
      BY <3>1, Zenon DEF Jobs
    <3> QED BY <3>1, <3>2, <3>3 DEF Jobs
  <2>2. /\ pc' = [pc EXCEPT ![t] = "scan"] /\ pc'[t] = "scan"
        /\ \A u \in Threads \ {t} : pc'[u] = pc[u]
    BY <1>2 DEF IInv, TypeOK, Goto
  <2>3. /\ listener'[p] = NoOne /\ \A q \in Ports \ {p} : listener'[q] = listener[q]
        /\ listener' \in [Ports -> Managers \cup Emulators \cup {NoOne}]
    BY <1>0, <1>2 DEF IInv, TypeOK
  <2>4. \A u \in Threads : PortsOf(u)' = PortsOf(u) /\ Uses(u)' = Uses(u)
    BY <2>1 DEF PortsOf, Uses
  <2>5. TypeOK'
    BY <1>0, <1>2, <2>1, <2>2, <2>3 DEF IInv, TypeOK
  <2>6. OneScans'
    <3>1. \A u \in Threads : pc'[u] = "flock" =>
            /\ u # t /\ pc[u] = "flock" /\ job'[u] = job[u]
            /\ MgrOf[u] # m /\ listener[job[u].cursor] = MgrOf[u]
            /\ job[u].cursor \in Ports
      BY <1>0, <2>1, <2>2 DEF IInv, OneScans, Scanning
    <3> QED BY <1>0, <1>2, <2>2, <2>3, <3>1 DEF IInv, OneScans, Scanning
  <2>7. PortsByStep'
    BY <1>0, <2>1, <2>2 DEF IInv, PortsByStep, Scanning
  <2>8. EmulatorByStep'
    BY <1>0, <1>2, <2>2, <2>3 DEF IInv, EmulatorByStep
  <2>9. ConnListens'
    <3>1. ASSUME NEW u \in Threads, pc'[u] = "verify", job'[u].conn # NoOne
          PROVE  listener'[job'[u].port] = job'[u].conn
      <4>1. u # t /\ pc[u] = "verify" /\ job'[u] = job[u]
        BY <2>1, <2>2, <3>1
      <4>2. listener[job[u].port] = job[u].conn
        BY <3>1, <4>1 DEF IInv, ConnListens
      <4>3. job[u].port \in Ports
        BY <4>1, PortsOfType DEF IInv, PortsByStep, Scanning
      <4>4. job[u].conn \in Threads \cup {Outsider}
        BY <3>1, <4>1, PortsOfType DEF IInv, Emulators
      <4> QED BY <1>0, <2>3, <4>1, <4>2, <4>3, <4>4
    <3> QED BY <3>1 DEF ConnListens
  <2>10. TalksToOwn'
    BY <1>2, <2>1, <2>2 DEF IInv, TalksToOwn
  <2>11. ClosingIsMine'
    BY <1>0, <2>2, <2>4 DEF IInv, TypeOK, ClosingIsMine
  <2>12. OnAccount'
    <3>1. \A k \in Managers, q \in Ports :
            listener'[q] = k => q # p /\ listener[q] = k
      BY <2>3
    <3>2. \A u \in Threads : pc[u] = "flock" =>
            (pc'[u] = "flock" /\ job'[u] = job[u]) \/ job[u].cursor = p
      BY <2>1, <2>2
    <3>3. UNCHANGED <<flock, allocated>>
      BY <1>2
    <3> HIDE DEF p, n
    <3>4. ASSUME NEW k \in Managers, NEW q \in Ports, listener'[q] = k
          PROVE  \E u \in Threads : MgrOf[u] = k /\
                    (q \in PortsOf(u)' \/ (pc'[u] = "flock" /\ q = job'[u].cursor))
      <4>1. q # p /\ listener[q] = k
        BY <3>1, <3>4
      <4>2. PICK u \in Threads : MgrOf[u] = k /\
                    (q \in PortsOf(u) \/ (pc[u] = "flock" /\ q = job[u].cursor))
        BY <4>1 DEF IInv, OnAccount
      <4> QED BY <2>4, <3>2, <4>1, <4>2
    <3>5. ASSUME NEW k \in Managers, NEW q \in Ports,
                 q \in allocated'[k] \/ flock'[q] = k
          PROVE  \E u \in Threads : MgrOf[u] = k /\ q \in PortsOf(u)'
      BY <2>4, <3>3, <3>5 DEF IInv, OnAccount
    <3> QED BY <3>4, <3>5 DEF OnAccount
  <2>13. AllocatorAgrees'
    BY <1>0, <1>2, <2>4 DEF IInv, AllocatorAgrees
  <2>14. LockedFromStart'
    BY <1>0, <1>2, <2>2, <2>4 DEF IInv, LockedFromStart, Scanning
  <2> QED BY <2>5, <2>6, <2>7, <2>8, <2>9, <2>10, <2>11, <2>12, <2>13, <2>14 DEF IInv
<1> QED BY <1>1, <1>2 DEF TryLock

(* The locks go from the allocator to the instance, the reservations go.    *)
LEMMA HandOverIInv ==
    ASSUME IInv, NEW t \in Threads, HandOver(t) PROVE IInv'
<1> DEFINE m == MgrOf[t]
<1>0. /\ pc[t] = "handover" /\ AllocatorFree(m)
      /\ pc' = [pc EXCEPT ![t] = "connect"] /\ emu' = [emu EXCEPT ![t] = "booting"]
      /\ UNCHANGED <<allocated, job, listed, closing, misfreed>>
      /\ m \in Managers /\ m \notin Emulators /\ m # NoOne
  BY DEF HandOver, Goto, Emulators
<1>1. /\ pc'[t] = "connect" /\ emu'[t] = "booting"
      /\ \A u \in Threads \ {t} : pc'[u] = pc[u] /\ emu'[u] = emu[u]
  BY <1>0 DEF IInv, TypeOK
<1>2. \A p \in Ports :
        /\ flock'[p] = IF p \in PortsOf(t) /\ flock[p] = m THEN t ELSE flock[p]
        /\ listener'[p] = IF p \in PortsOf(t) /\ listener[p] = m
                          THEN NoOne ELSE listener[p]
  BY DEF HandOver
<1>3. TypeOK'
  <2>1. /\ flock' \in [Ports -> Managers \cup Threads \cup {NoOne}]
        /\ listener' \in [Ports -> Managers \cup Emulators \cup {NoOne}]
    BY DEF HandOver, IInv, TypeOK
  <2> QED BY <1>0, <2>1 DEF IInv, TypeOK
<1> HIDE DEF m
<1>4. \A u \in Threads : PortsOf(u)' = PortsOf(u) /\ Uses(u)' = Uses(u)
  BY <1>0 DEF PortsOf, Uses
<1>5. OneScans'
  <2>1. \A u \in Threads : pc'[u] \in {"scan", "flock"} =>
            u # t /\ pc[u] = pc'[u] /\ MgrOf[u] # m
    BY <1>0, <1>1 DEF AllocatorFree
  <2>2. \A u \in Threads : pc[u] = "flock" =>
            job[u].cursor \in Ports \ allocated[MgrOf[u]] /\ listener[job[u].cursor] = MgrOf[u]
    BY DEF IInv, OneScans
  <2> QED BY <1>0, <1>2, <2>1, <2>2 DEF IInv, OneScans, Scanning
<1>6. PortsByStep'
  BY <1>0, <1>1 DEF IInv, PortsByStep, Scanning
<1>7. EmulatorByStep'
  BY <1>0, <1>1, <1>2 DEF IInv, EmulatorByStep, Emulators
<1>8. ConnListens'
  <2>1. ASSUME NEW u \in Threads, pc'[u] = "verify", job'[u].conn # NoOne
        PROVE  listener'[job'[u].port] = job'[u].conn
    <3>1. pc[u] = "verify" /\ job'[u] = job[u]
      BY <1>0, <1>1, <2>1
    <3>2. listener[job[u].port] = job[u].conn
      BY <2>1, <3>1 DEF IInv, ConnListens
    <3>3. job[u].port \in Ports
      BY <3>1, PortsOfType DEF IInv, PortsByStep, Scanning
    <3>4. job[u].conn \in Emulators
      BY <2>1, <3>1, PortsOfType DEF IInv
    <3> QED BY <1>0, <1>2, <3>1, <3>2, <3>3, <3>4
  <2> QED BY <2>1 DEF ConnListens
<1>9. TalksToOwn'
  <2>1. ASSUME NEW u \in Threads, pc'[u] = "have", flock'[job'[u].port] = u
        PROVE  job'[u].conn \in {u, NoOne}
    <3>1. u # t /\ pc[u] = "have" /\ job'[u] = job[u]
      BY <1>0, <1>1, <2>1
    <3>2. job[u].port \in Ports
      BY <3>1, PortsOfType DEF IInv, PortsByStep, Scanning
    <3>3. flock[job[u].port] = u
      BY <1>2, <2>1, <3>1, <3>2
    <3> QED BY <3>1, <3>3 DEF IInv, TalksToOwn
  <2> QED BY <2>1 DEF TalksToOwn
<1>10. ClosingIsMine'
  BY <1>0, <1>1, <1>4 DEF IInv, TypeOK, ClosingIsMine
<1>11. OnAccount'
  <2>1. \A k \in Managers, p \in Ports :
          /\ flock'[p] = k => flock[p] = k
          /\ listener'[p] = k => listener[p] = k
    BY <1>2
  <2>2. \A u \in Threads : pc[u] = "flock" => pc'[u] = "flock"
    BY <1>0, <1>1
  <2> QED BY <1>0, <1>4, <2>1, <2>2 DEF IInv, OnAccount
<1>12. AllocatorAgrees'
  BY <1>0, <1>4 DEF IInv, AllocatorAgrees
<1>13. LockedFromStart'
  <2>1. ASSUME ~misfreed, NEW u \in Threads \ {t}, NEW q \in PortsOf(u),
               ~ReuseExisting[MgrOf[u]]
        PROVE  /\ Scanning(u)' \/ pc'[u] \in {"begin", "handover"} => flock'[q] = MgrOf[u]
               /\ pc'[u] \in {"connect", "verify"} => flock'[q] = u
    <3>1. q \in Ports /\ u \notin Managers
      BY PortsOfType DEF IInv
    <3>2. CASE pc[u] \in {"connect", "verify"}
      <4>1. flock[q] = u
        BY <2>1, <3>2 DEF IInv, LockedFromStart
      <4> QED BY <1>0, <1>1, <1>2, <3>1, <3>2, <4>1 DEF Scanning
    <3>3. CASE Scanning(u) \/ pc[u] \in {"begin", "handover"}
      <4>1. flock[q] = MgrOf[u]
        BY <2>1, <3>3 DEF IInv, LockedFromStart
      <4>2. CASE MgrOf[u] # m
        BY <1>1, <1>2, <3>1, <3>3, <4>1, <4>2 DEF Scanning
      <4>3. CASE MgrOf[u] = m
        <5>1. Uses(u) = PortsOf(u) /\ Uses(t) = PortsOf(t)
          BY <1>0, <3>3 DEF IInv, PortsByStep, Scanning, Uses
        <5>2. q \notin PortsOf(t)
          BY <2>1, <4>3, <5>1 DEF IInv, AllocatorAgrees, m
        <5> QED BY <1>1, <1>2, <3>1, <3>3, <4>1, <5>2 DEF Scanning
      <4> QED BY <4>2, <4>3
    <3>4. CASE ~Scanning(u) /\ pc[u] \notin {"begin", "handover", "connect", "verify"}
      BY <1>1, <3>4 DEF Scanning
    <3> QED BY <3>2, <3>3, <3>4
  <2>2. ASSUME ~misfreed, NEW q \in PortsOf(t), ~ReuseExisting[MgrOf[t]]
        PROVE  flock'[q] = t
    <3>1. q \in Ports
      BY PortsOfType DEF IInv
    <3>2. flock[q] = m
      BY <1>0, <2>2 DEF IInv, LockedFromStart, m
    <3> QED BY <1>2, <3>1, <3>2
  <2>3. ~Scanning(t)' /\ pc'[t] = "connect"
    BY <1>1 DEF Scanning
  <2> QED BY <1>0, <1>4, <2>1, <2>2, <2>3 DEF LockedFromStart
<1> QED BY <1>3, <1>5, <1>6, <1>7, <1>8, <1>9, <1>10, <1>11, <1>12, <1>13 DEF IInv

-----------------------------------------------------------------------------
(* An emulator comes or goes: the ports of nobody become its, or its ports  *)
(* nobody's.                                                                *)
LEMMA GoneProperties ==
    ASSUME TypeOK, NEW e \in Emulators, job' = Gone(e)
    PROVE  /\ job' \in [Threads -> Jobs]
           /\ \A u \in Threads :
                /\ job'[u].port = job[u].port /\ job'[u].text = job[u].text
                /\ job'[u].cursor = job[u].cursor /\ job'[u].freed = job[u].freed
                /\ job'[u].conn = IF job[u].conn = e THEN NoOne ELSE job[u].conn
           /\ \A u \in Threads : PortsOf(u)' = PortsOf(u) /\ Uses(u)' = Uses(u)
<1>1. ASSUME NEW u \in Threads
      PROVE  /\ job'[u] \in Jobs
             /\ job'[u].port = job[u].port /\ job'[u].text = job[u].text
             /\ job'[u].cursor = job[u].cursor /\ job'[u].freed = job[u].freed
             /\ job'[u].conn = IF job[u].conn = e THEN NoOne ELSE job[u].conn
  <2>1. job[u] \in Jobs
    BY DEF TypeOK
  <2>2. CASE job[u].conn = e
    <3>1. job'[u] = [job[u] EXCEPT !.conn = NoOne]
      BY <2>2 DEF Gone
    <3>2. NoOne \in Threads \cup {Outsider, NoOne}
      OBVIOUS
    <3>3. job'[u] \in Jobs
      BY <2>1, <3>1, <3>2, Zenon DEF Jobs
    <3> QED BY <2>1, <2>2, <3>1, <3>3 DEF Jobs
  <2>3. CASE job[u].conn # e
    <3>1. job'[u] = job[u]
      BY <2>3 DEF Gone
    <3> QED BY <2>1, <2>3, <3>1
  <2> QED BY <2>2, <2>3
<1>2. job' = [u \in Threads |-> job'[u]]
  BY DEF Gone
<1>3. job' \in [Threads -> Jobs]
  BY <1>1, <1>2
<1>4. \A u \in Threads : PortsOf(u)' = PortsOf(u) /\ Uses(u)' = Uses(u)
  BY <1>1 DEF PortsOf, Uses
<1> QED BY <1>1, <1>3, <1>4

(* A listener comes to a free port, or one goes and with it its             *)
(* connections.                                                             *)
LEMMA ComesOrGoes ==
    ASSUME IInv, NEW e \in Emulators,
           listener' \in [Ports -> Managers \cup Emulators \cup {NoOne}],
           \A p \in Ports : \/ listener'[p] = listener[p]
                            \/ listener[p] = NoOne /\ listener'[p] = e
                            \/ listener[p] = e /\ listener'[p] = NoOne,
           \/ job' = job /\ \A p \in Ports : listener[p] = e => listener'[p] = e
           \/ job' = Gone(e),
           emu' \in [Threads -> {"off", "booting", "up"}],
           \A u \in Threads \ {e} : emu'[u] = emu[u],
           e \in Threads => /\ emu'[e] # "off" => emu[e] # "off"
                            /\ (\E p \in Ports : listener'[p] = e) => emu'[e] = "up",
           UNCHANGED <<allocated, flock, pc, listed, closing, misfreed>>
    PROVE  IInv'
<1>1. /\ job' \in [Threads -> Jobs]
      /\ \A u \in Threads :
           /\ job'[u].port = job[u].port /\ job'[u].text = job[u].text
           /\ job'[u].cursor = job[u].cursor /\ job'[u].freed = job[u].freed
           /\ job'[u].conn = job[u].conn \/ job'[u].conn = NoOne
           /\ job' = Gone(e) => job'[u].conn = IF job[u].conn = e THEN NoOne ELSE job[u].conn
      /\ \A u \in Threads : PortsOf(u)' = PortsOf(u) /\ Uses(u)' = Uses(u)
  <2>1. CASE job' = Gone(e)
    BY <2>1, GoneProperties DEF IInv
  <2>2. CASE job' = job /\ job' # Gone(e)
    BY <2>2 DEF IInv, TypeOK, PortsOf, Uses
  <2> QED BY <2>1, <2>2
<1>2. \A m \in Managers : m # e /\ m # NoOne /\ \A p \in Ports :
            listener'[p] = m <=> listener[p] = m
  BY DEF Emulators
<1>3. TypeOK'
  BY <1>1 DEF IInv, TypeOK
<1>4. OneScans'
  BY <1>1, <1>2 DEF IInv, OneScans, Scanning
<1>5. PortsByStep'
  BY <1>1 DEF IInv, PortsByStep, Scanning
<1>6. EmulatorByStep'
  BY DEF IInv, EmulatorByStep, Emulators
<1>7. ConnListens'
  <2>1. ASSUME NEW u \in Threads, pc'[u] = "verify", job'[u].conn # NoOne
        PROVE  listener'[job'[u].port] = job'[u].conn
    <3>1. pc[u] = "verify" /\ job'[u].conn = job[u].conn /\ job'[u].port = job[u].port
      BY <1>1, <2>1
    <3>2. listener[job[u].port] = job[u].conn
      BY <2>1, <3>1 DEF IInv, ConnListens
    <3>3. job[u].port \in Ports
      BY <3>1, PortsOfType DEF IInv, PortsByStep, Scanning
    <3>4. job' = Gone(e) => job[u].conn # e
      BY <1>1, <2>1, <3>1
    <3> QED BY <2>1, <3>1, <3>2, <3>3, <3>4
  <2> QED BY <2>1 DEF ConnListens
<1>8. TalksToOwn'
  BY <1>1 DEF IInv, TalksToOwn
<1>9. ClosingIsMine'
  BY <1>1 DEF IInv, TypeOK, ClosingIsMine
<1>10. OnAccount'
  BY <1>1, <1>2 DEF IInv, OnAccount
<1>11. AllocatorAgrees'
  BY <1>1 DEF IInv, AllocatorAgrees
<1>12. LockedFromStart'
  BY <1>1 DEF IInv, LockedFromStart, Scanning
<1> QED BY <1>3, <1>4, <1>5, <1>6, <1>7, <1>8, <1>9, <1>10, <1>11, <1>12 DEF IInv

(* The emulator binds those of its ports that are free.                     *)
LEMMA EmuBindIInv ==
    ASSUME IInv, NEW t \in Threads, EmuBind(t) PROVE IInv'
<1>1. t \in Emulators
  BY DEF Emulators
<1>2. /\ listener' \in [Ports -> Managers \cup Emulators \cup {NoOne}]
      /\ emu' \in [Threads -> {"off", "booting", "up"}]
      /\ emu'[t] = "up" /\ emu[t] # "off"
      /\ \A u \in Threads \ {t} : emu'[u] = emu[u]
  BY <1>1 DEF EmuBind, IInv, TypeOK
<1>3. \A p \in Ports : \/ listener'[p] = listener[p]
                       \/ listener[p] = NoOne /\ listener'[p] = t
  BY DEF EmuBind
<1>4. UNCHANGED <<job, allocated, flock, pc, listed, closing, misfreed>>
  BY DEF EmuBind
<1> QED BY <1>1, <1>2, <1>3, <1>4, ComesOrGoes

(* The emulator dies.                                                       *)
LEMMA EmuExitIInv ==
    ASSUME IInv, NEW t \in Threads, EmuExit(t) PROVE IInv'
<1>1. t \in Emulators /\ t # NoOne
  BY DEF Emulators
<1>2. /\ listener' \in [Ports -> Managers \cup Emulators \cup {NoOne}]
      /\ emu' \in [Threads -> {"off", "booting", "up"}] /\ emu'[t] = "off"
      /\ \A u \in Threads \ {t} : emu'[u] = emu[u]
  BY DEF EmuExit, Without, IInv, TypeOK
<1>3. \A p \in Ports : \/ listener'[p] = listener[p] /\ listener[p] # t
                       \/ listener[p] = t /\ listener'[p] = NoOne
  BY DEF EmuExit, Without, IInv, TypeOK
<1>4. /\ UNCHANGED <<allocated, flock, pc, listed, closing, misfreed>>
      /\ job' = Gone(t)
  BY DEF EmuExit
<1>5. \A p \in Ports : listener'[p] # t
  BY <1>1, <1>3
<1> QED BY <1>1, <1>2, <1>3, <1>4, <1>5, ComesOrGoes

(* An emulator of somebody else's comes or goes.                            *)
LEMMA OutsiderIInv ==
    ASSUME IInv, NEW q \in OutsiderPorts, OutsiderStarts(q) \/ OutsiderExits(q)
    PROVE  IInv'
<1>1. /\ Outsider \in Emulators /\ Outsider \notin Threads /\ Outsider # NoOne
      /\ q \in Ports
  BY DEF Emulators
<1>2. UNCHANGED <<allocated, flock, emu, pc, listed, closing, misfreed>>
  BY DEF OutsiderStarts, OutsiderExits
<1>3. emu \in [Threads -> {"off", "booting", "up"}]
  BY DEF IInv, TypeOK
<1>4. CASE OutsiderStarts(q)
  <2>1. /\ listener' \in [Ports -> Managers \cup Emulators \cup {NoOne}]
        /\ \A p \in Ports : \/ listener'[p] = listener[p]
                            \/ listener[p] = NoOne /\ listener'[p] = Outsider
        /\ job' = job
    BY <1>1, <1>4 DEF OutsiderStarts, IInv, TypeOK
  <2>2. \A p \in Ports : listener[p] = Outsider => listener'[p] = Outsider
    BY <1>1, <2>1
  <2> QED BY <1>1, <1>2, <1>3, <2>1, <2>2, ComesOrGoes
<1>5. CASE OutsiderExits(q)
  <2>1. /\ listener' \in [Ports -> Managers \cup Emulators \cup {NoOne}]
        /\ \A p \in Ports : \/ listener'[p] = listener[p]
                            \/ listener[p] = Outsider /\ listener'[p] = NoOne
        /\ job' = Gone(Outsider)
    BY <1>1, <1>5 DEF OutsiderExits, IInv, TypeOK
  <2> QED BY <1>1, <1>2, <1>3, <2>1, ComesOrGoes
<1> QED BY <1>4, <1>5

-----------------------------------------------------------------------------
(* An instance is stopped, by its user or by a shutdown.                    *)
Closings == SUBSET [thread : Threads, ports : SUBSET Ports,
                    current : BOOLEAN, stopped : BOOLEAN]

LEMMA StopProperties ==
    ASSUME IInv, NEW t \in Threads, pc[t] \in {"have", "release"}, StopOf(t),
           pc' = pc \/ pc' = [pc EXCEPT ![t] = "release"],
           listed' \subseteq listed, t \in listed' => pc'[t] = "have",
           closing' \in [Managers -> Closings],
           \A m \in Managers : \A i \in closing'[m] : \E j \in closing[m] :
                /\ i.thread = j.thread /\ i.ports = j.ports
                /\ i.current => j.current,
           UNCHANGED <<allocated, misfreed>>
    PROVE  IInv'
<1>0. /\ t \in Emulators /\ t \notin Managers /\ t # NoOne
      /\ NoOne \notin Managers \cup Threads
  BY DEF Emulators
<1>1. /\ job' \in [Threads -> Jobs]
      /\ \A u \in Threads :
           /\ job'[u].port = job[u].port /\ job'[u].text = job[u].text
           /\ job'[u].cursor = job[u].cursor /\ job'[u].freed = job[u].freed
           /\ job'[u].conn = IF job[u].conn = t THEN NoOne ELSE job[u].conn
      /\ \A u \in Threads : PortsOf(u)' = PortsOf(u) /\ Uses(u)' = Uses(u)
  BY <1>0, GoneProperties DEF IInv, StopOf
<1>2. /\ pc'[t] \in {"have", "release"}
      /\ \A u \in Threads : pc'[u] = pc[u] \/ (u = t /\ pc'[u] = "release")
      /\ pc' \in [Threads -> {"idle", "scan", "flock", "begin", "adopt",
                              "handover", "connect", "verify", "failed",
                              "have", "release"}]
  BY DEF IInv, TypeOK
<1>3. /\ emu' \in [Threads -> {"off", "booting", "up"}] /\ emu'[t] = "off"
      /\ \A u \in Threads \ {t} : emu'[u] = emu[u]
  BY DEF StopOf, IInv, TypeOK
<1>4. /\ listener' \in [Ports -> Managers \cup Emulators \cup {NoOne}]
      /\ \A p \in Ports : listener'[p] = IF listener[p] = t THEN NoOne ELSE listener[p]
  BY DEF StopOf, Without, IInv, TypeOK
<1>5. /\ flock' \in [Ports -> Managers \cup Threads \cup {NoOne}]
      /\ \A p \in Ports : flock'[p] = IF flock[p] = t THEN NoOne ELSE flock[p]
  BY DEF StopOf, Without, IInv, TypeOK
<1>6. TypeOK'
  BY <1>1, <1>2, <1>3, <1>4, <1>5 DEF IInv, TypeOK, Closings
<1>7. OneScans'
  BY <1>0, <1>1, <1>2, <1>4 DEF IInv, OneScans, Scanning
<1>8. PortsByStep'
  BY <1>1, <1>2 DEF IInv, PortsByStep, Scanning
<1>9. EmulatorByStep'
  <2>1. \A p \in Ports : flock'[p] # t /\ listener'[p] # t
    BY <1>0, <1>4, <1>5
  <2>2. \A u \in Threads \ {t}, p \in Ports :
          (flock'[p] = u => flock[p] = u) /\ (listener'[p] = u => listener[p] = u)
    BY <1>0, <1>4, <1>5
  <2>3. \A u \in Threads \ {t} : pc'[u] = pc[u] /\ emu'[u] = emu[u]
    BY <1>2, <1>3
  <2> QED BY <1>3, <2>1, <2>2, <2>3 DEF IInv, EmulatorByStep
<1>10. ConnListens'
  <2>1. ASSUME NEW u \in Threads, pc'[u] = "verify", job'[u].conn # NoOne
        PROVE  listener'[job'[u].port] = job'[u].conn
    <3>1. pc[u] = "verify" /\ job'[u].conn = job[u].conn /\ job'[u].port = job[u].port
      BY <1>1, <1>2, <2>1
    <3>2. listener[job[u].port] = job[u].conn
      BY <2>1, <3>1 DEF IInv, ConnListens
    <3>3. job[u].port \in Ports
      BY <3>1, PortsOfType DEF IInv, PortsByStep, Scanning
    <3>4. job[u].conn # t
      BY <1>1, <2>1, <3>1
    <3> QED BY <1>4, <3>1, <3>2, <3>3, <3>4
  <2> QED BY <2>1 DEF ConnListens
<1>11. TalksToOwn'
  <2>1. ASSUME NEW u \in Threads, pc'[u] = "have", flock'[job'[u].port] = u
        PROVE  job'[u].conn \in {u, NoOne}
    <3>1. pc[u] = "have" /\ job'[u].port = job[u].port
      BY <1>1, <1>2, <2>1
    <3>2. job[u].port \in Ports
      BY <3>1, PortsOfType DEF IInv, PortsByStep, Scanning
    <3>3. flock[job[u].port] = u
      BY <1>0, <1>5, <2>1, <3>1, <3>2
    <3>4. job[u].conn \in {u, NoOne}
      BY <3>1, <3>3 DEF IInv, TalksToOwn
    <3> QED BY <1>1, <3>4
  <2> QED BY <2>1 DEF TalksToOwn
<1>12. ClosingIsMine'
  BY <1>1, <1>2 DEF IInv, TypeOK, ClosingIsMine, Closings
<1>13. OnAccount'
  <2>1. \A k \in Managers, p \in Ports :
          /\ flock'[p] = k => flock[p] = k
          /\ listener'[p] = k => listener[p] = k
    BY <1>0, <1>4, <1>5
  <2>2. \A u \in Threads : pc[u] = "flock" => pc'[u] = "flock"
    BY <1>2
  <2> QED BY <1>1, <2>1, <2>2 DEF IInv, OnAccount
<1>14. AllocatorAgrees'
  BY <1>1 DEF IInv, AllocatorAgrees
<1>15. LockedFromStart'
  <2>1. ASSUME ~misfreed, NEW u \in Threads, NEW q \in PortsOf(u),
               ~ReuseExisting[MgrOf[u]]
        PROVE  /\ Scanning(u)' \/ pc'[u] \in {"begin", "handover"} => flock'[q] = MgrOf[u]
               /\ pc'[u] \in {"connect", "verify"} => flock'[q] = u
    <3>1. q \in Ports /\ MgrOf[u] \in Managers
      BY PortsOfType DEF IInv
    <3>2. CASE u = t
      BY <1>2, <3>2 DEF Scanning
    <3>3. CASE u # t
      BY <1>0, <1>2, <1>5, <2>1, <3>1, <3>3 DEF IInv, LockedFromStart, Scanning
    <3> QED BY <3>2, <3>3
  <2> QED BY <1>1, <2>1 DEF LockedFromStart
<1> QED
  BY <1>6, <1>7, <1>8, <1>9, <1>10, <1>11, <1>12, <1>13, <1>14, <1>15 DEF IInv

(* release() stops the instance.                                            *)
LEMMA ReleaseIInv ==
    ASSUME IInv, NEW t \in Threads, Release(t) PROVE IInv'
<1>1. /\ pc[t] = "have" /\ pc' = [pc EXCEPT ![t] = "release"]
      /\ listed' = listed \ {t} /\ StopOf(t)
      /\ UNCHANGED <<allocated, closing, misfreed>>
  BY DEF Release, Goto
<1>2. closing' \in [Managers -> Closings]
  BY <1>1 DEF IInv, TypeOK, Closings
<1> QED BY <1>1, <1>2, StopProperties

(* shutdown() stops one that it listed, if that is still the one.           *)
LEMMA ShutdownStopIInv ==
    ASSUME IInv, NEW m \in Managers, NEW i \in closing[m], ShutdownStop(m, i)
    PROVE  IInv'
<1>1. /\ closing' = [closing EXCEPT ![m] = (@ \ {i}) \cup
                                           {[i EXCEPT !.stopped = TRUE]}]
      /\ UNCHANGED <<allocated, pc, listed, misfreed>>
  BY DEF ShutdownStop
<1>2. /\ i \in [thread : Threads, ports : SUBSET Ports,
                current : BOOLEAN, stopped : BOOLEAN]
      /\ i.thread \in Threads
      /\ i.current => pc[i.thread] \in {"have", "release"}
  BY DEF IInv, TypeOK, ClosingIsMine
<1> DEFINE k == [i EXCEPT !.stopped = TRUE]
<1>3. /\ k \in [thread : Threads, ports : SUBSET Ports,
                current : BOOLEAN, stopped : BOOLEAN]
      /\ k.thread = i.thread /\ k.ports = i.ports /\ k.current = i.current
  BY <1>2
<1>4. closing' = [closing EXCEPT ![m] = (closing[m] \ {i}) \cup {k}]
  BY <1>1
<1> HIDE DEF k
<1>5. /\ closing' \in [Managers -> Closings]
      /\ \A n \in Managers : \A h \in closing'[n] : \E j \in closing[n] :
            h.thread = j.thread /\ h.ports = j.ports /\ (h.current => j.current)
  <2>1. closing \in [Managers -> Closings]
    BY DEF IInv, TypeOK, Closings
  <2>2. (closing[m] \ {i}) \cup {k} \in Closings
    BY <1>3, <2>1 DEF Closings
  <2>3. closing' \in [Managers -> Closings]
    BY <1>4, <2>1, <2>2
  <2>4. ASSUME NEW n \in Managers, NEW h \in closing'[n]
        PROVE  \E j \in closing[n] :
                 h.thread = j.thread /\ h.ports = j.ports /\ (h.current => j.current)
    <3>1. h \in closing[n] \/ (n = m /\ h = k)
      BY <1>4, <2>1, <2>4
    <3>2. CASE h \in closing[n]
      BY <3>2
    <3>3. CASE n = m /\ h = k
      BY <1>3, <3>3
    <3> QED BY <3>1, <3>2, <3>3
  <2> QED BY <2>3, <2>4
<1>6. CASE i.current
  <2>1. StopOf(i.thread)
    BY <1>6 DEF ShutdownStop
  <2>2. i.thread \in listed' => pc'[i.thread] = "have"
    BY <1>1, <1>2 DEF IInv, PortsByStep
  <2> QED BY <1>1, <1>2, <1>5, <1>6, <2>1, <2>2, StopProperties
<1>7. CASE ~i.current
  <2>1. UNCHANGED <<emu, listener, flock, job>>
    BY <1>7 DEF ShutdownStop
  <2>2. \A u \in Threads : PortsOf(u)' = PortsOf(u) /\ Uses(u)' = Uses(u)
    BY <2>1 DEF PortsOf, Uses
  <2>3. TypeOK'
    BY <1>1, <1>5, <2>1 DEF IInv, TypeOK, Closings
  <2>4. ClosingIsMine'
    BY <1>1, <1>5, <2>2 DEF IInv, TypeOK, ClosingIsMine, Closings
  <2>5. OneScans' /\ PortsByStep' /\ EmulatorByStep' /\ ConnListens' /\ TalksToOwn'
    BY <1>1, <2>1 DEF IInv, OneScans, PortsByStep, EmulatorByStep, ConnListens,
       TalksToOwn, Scanning
  <2>6. OnAccount' /\ AllocatorAgrees' /\ LockedFromStart'
    BY <1>1, <2>1, <2>2 DEF IInv, OnAccount, AllocatorAgrees, LockedFromStart, Scanning
  <2> QED BY <2>3, <2>4, <2>5, <2>6 DEF IInv
<1> QED BY <1>6, <1>7

(* shutdown() lists the manager's instances.                                *)
LEMMA ShutdownIInv ==
    ASSUME IInv, NEW m \in Managers, Shutdown(m) PROVE IInv'
<1> DEFINE mine == {t \in listed : MgrOf[t] = m}
           entry(t) == [thread |-> t, ports |-> PortsOf(t), current |-> TRUE,
                        stopped |-> FALSE]
<1>1. /\ closing' = [closing EXCEPT ![m] = {entry(t) : t \in mine}]
      /\ listed' = listed \ mine
      /\ UNCHANGED <<allocated, listener, flock, emu, pc, job, misfreed>>
  BY DEF Shutdown
<1>2. \A t \in mine : t \in Threads /\ pc[t] = "have" /\ MgrOf[t] = m
  BY DEF IInv, TypeOK, PortsByStep
<1>3. \A u \in Threads : PortsOf(u)' = PortsOf(u) /\ Uses(u)' = Uses(u)
  BY <1>1 DEF PortsOf, Uses
<1>4. \A t \in mine : entry(t) \in [thread : Threads, ports : SUBSET Ports,
                                    current : BOOLEAN, stopped : BOOLEAN]
  BY <1>2, PortsOfType DEF IInv
<1>5. closing' \in [Managers -> Closings]
  <2> HIDE DEF entry, mine
  <2>1. {entry(t) : t \in mine} \in Closings
    BY <1>4, Zenon DEF Closings
  <2> QED BY <1>1, <2>1 DEF IInv, TypeOK, Closings
<1>6. TypeOK'
  BY <1>1, <1>5 DEF IInv, TypeOK, Closings
<1>7. ClosingIsMine'
  <2>1. ASSUME NEW n \in Managers, NEW i \in closing'[n]
        PROVE  /\ MgrOf[i.thread] = n
               /\ i.current => /\ pc[i.thread] \in {"have", "release"}
                               /\ i.ports = PortsOf(i.thread)
    <3>1. CASE n = m
      <4>1. PICK t \in mine : i = entry(t)
        BY <1>1, <2>1, <3>1 DEF IInv, TypeOK
      <4> QED BY <1>2, <3>1, <4>1
    <3>2. CASE n # m
      BY <1>1, <2>1, <3>2 DEF IInv, TypeOK, ClosingIsMine
    <3> QED BY <3>1, <3>2
  <2>2. \A n \in Managers : \A i \in closing'[n] : i.thread \in Threads
    BY <1>5 DEF Closings
  <2> QED BY <1>1, <1>3, <2>1, <2>2 DEF ClosingIsMine
<1>8. OneScans' /\ PortsByStep' /\ EmulatorByStep' /\ ConnListens' /\ TalksToOwn'
  BY <1>1 DEF IInv, OneScans, PortsByStep, EmulatorByStep, ConnListens,
     TalksToOwn, Scanning
<1>9. OnAccount' /\ AllocatorAgrees' /\ LockedFromStart'
  BY <1>1, <1>3 DEF IInv, OnAccount, AllocatorAgrees, LockedFromStart, Scanning
<1> QED BY <1>6, <1>7, <1>8, <1>9 DEF IInv

-----------------------------------------------------------------------------
(* Ports are freed: after a failed start, after a release, or by a          *)
(* shutdown.  The thread they were given to starts afresh, or its instance  *)
(* has them no longer, or the shutdown was too late and it has others now.  *)
Keeps(u) ==
    /\ pc'[u] = pc[u] /\ emu'[u] = emu[u]
    /\ job'[u].port = job[u].port /\ job'[u].text = job[u].text
    /\ job'[u].cursor = job[u].cursor /\ job'[u].freed = job[u].freed

StartsAfresh(t, P) ==
    /\ P = PortsOf(t) /\ pc[t] \in {"release", "failed"}
    /\ pc'[t] \in {"scan", "idle"} /\ emu'[t] = "off"
    /\ job'[t].port = NoPort /\ job'[t].text = NoPort /\ job'[t].freed = FALSE
    /\ \A p \in Ports : flock'[p] # t /\ listener'[p] # t

HasNoLonger(t, P) ==
    /\ P = PortsOf(t) /\ pc[t] \in {"have", "release"}
    /\ pc'[t] = pc[t] /\ emu'[t] = emu[t]
    /\ job'[t].port = job[t].port /\ job'[t].text = job[t].text
    /\ job'[t].freed = TRUE

(* The ports P of t's manager m are freed, and gone is t's emulator if that  *)
(* goes with them.                                                          *)
Frees(t, m, P, gone) ==
    /\ \A p \in Ports :
         /\ p \in allocated'[m] <=> p \in allocated[m] \ P
         /\ listener'[p] = IF listener[p] \in gone \/ (p \in P /\ listener[p] = m)
                           THEN NoOne ELSE listener[p]
         /\ flock'[p] = IF flock[p] \in gone \/ (p \in P /\ flock[p] = m)
                        THEN NoOne ELSE flock[p]
    /\ \A k \in Managers \ {m} : allocated'[k] = allocated[k]
    /\ \A u \in Threads \ {t} : Keeps(u)
    /\ StartsAfresh(t, P) \/ (gone = {} /\ (HasNoLonger(t, P) \/ Keeps(t)))
    /\ \A u \in Threads : /\ job'[u].conn \in {job[u].conn, NoOne}
                          /\ u # t /\ job'[u].conn # NoOne => job[u].conn \notin gone
    /\ ~misfreed' => /\ ~misfreed
                     /\ \A u \in Threads : MgrOf[u] = m /\ Uses(u) \cap P # {}
                            => u = t /\ ~Keeps(t)
    /\ UNCHANGED listed

LEMMA FreeProperties ==
    ASSUME IInv, NEW t \in Threads, NEW m \in Managers, m = MgrOf[t],
           NEW P \in SUBSET Ports, NEW gone \in SUBSET {t}, AllocatorFree(m),
           Frees(t, m, P, gone), TypeOK', ClosingIsMine'
    PROVE  IInv'
<1> USE DEF Frees
<1>0. /\ m \in Managers /\ m \notin Emulators /\ m # NoOne
      /\ t \notin Managers /\ t # NoOne /\ NoOne \notin Managers \cup Threads
      /\ \A p \in Ports, e \in Emulators \cup Managers :
            (listener'[p] = e => listener[p] = e) /\ (flock'[p] = e => flock[p] = e)
  BY DEF Emulators
<1>1. /\ \A u \in Threads \ {t} : PortsOf(u)' = PortsOf(u) /\ Uses(u)' = Uses(u)
      /\ Keeps(t) => PortsOf(t)' = PortsOf(t) /\ Uses(t)' = Uses(t)
      /\ HasNoLonger(t, P) => PortsOf(t)' = PortsOf(t) /\ Uses(t)' = {}
      /\ StartsAfresh(t, P) => PortsOf(t)' = {} /\ Uses(t)' = {}
      /\ Uses(t) \subseteq PortsOf(t)
  <2>1. ASSUME NEW u \in Threads, Keeps(u)
        PROVE  PortsOf(u)' = PortsOf(u) /\ Uses(u)' = Uses(u)
    BY <2>1 DEF Keeps, PortsOf, Uses
  <2>2. ASSUME HasNoLonger(t, P) PROVE PortsOf(t)' = PortsOf(t) /\ Uses(t)' = {}
    BY <2>2 DEF HasNoLonger, PortsOf, Uses
  <2>3. ASSUME StartsAfresh(t, P) PROVE PortsOf(t)' = {} /\ Uses(t)' = {}
    <3>1. job'[t].port = NoPort /\ job'[t].text = NoPort
      BY <2>3 DEF StartsAfresh
    <3>2. PortsOf(t)' = {}
      BY <3>1 DEF PortsOf
    <3>3. Uses(t)' = IF job'[t].freed THEN {} ELSE PortsOf(t)'
      BY DEF Uses
    <3> QED BY <3>2, <3>3
  <2>4. Uses(t) \subseteq PortsOf(t)
    BY DEF Uses
  <2> QED BY <2>1, <2>2, <2>3, <2>4
<1>2. /\ ~Scanning(t) /\ \A u \in Threads : MgrOf[u] = m => ~Scanning(u)
  BY DEF AllocatorFree, Scanning
<1>3. OneScans'
  <2>1. ASSUME NEW u \in Threads, NEW v \in Threads,
               MgrOf[u] = MgrOf[v], Scanning(u)', Scanning(v)'
        PROVE  u = v
    <3>1. ASSUME NEW w \in Threads \ {t}, Scanning(w)'
          PROVE  Scanning(w) /\ MgrOf[w] # m
      BY <1>2, <3>1 DEF Keeps, Scanning
    <3> QED BY <2>1, <3>1 DEF IInv, OneScans
  <2>2. ASSUME NEW u \in Threads, pc'[u] = "flock"
        PROVE  /\ job'[u].cursor \in Ports \ allocated'[MgrOf[u]]
               /\ listener'[job'[u].cursor] = MgrOf[u]
    <3>1. u # t /\ pc[u] = "flock" /\ job'[u].cursor = job[u].cursor
      BY <1>2, <2>2 DEF Keeps, StartsAfresh, HasNoLonger, Scanning
    <3>2. MgrOf[u] # m /\ MgrOf[u] \in Managers /\ MgrOf[u] \notin gone
      BY <1>2, <3>1 DEF Scanning
    <3>3. /\ job[u].cursor \in Ports \ allocated[MgrOf[u]]
          /\ listener[job[u].cursor] = MgrOf[u]
      BY <3>1 DEF IInv, OneScans
    <3> QED BY <3>1, <3>2, <3>3
  <2> QED BY <2>1, <2>2 DEF OneScans
<1>4. PortsByStep'
  <2>1. ASSUME NEW u \in Threads
        PROVE  /\ pc'[u] = "idle" => job'[u].port = NoPort
               /\ job'[u].port = NoPort => pc'[u] = "idle" \/ Scanning(u)'
               /\ job'[u].text # NoPort
                    => ~Scanning(u)' /\ pc'[u] \notin {"idle", "begin", "adopt"}
               /\ job'[u].freed => pc'[u] \in {"have", "release"}
               /\ u \in listed' => pc'[u] = "have"
    <3>1. CASE Keeps(u)
      BY <3>1 DEF IInv, PortsByStep, Keeps, Scanning
    <3>2. CASE u = t /\ HasNoLonger(t, P)
      BY <3>2 DEF IInv, PortsByStep, HasNoLonger, Scanning
    <3>3. CASE u = t /\ StartsAfresh(t, P)
      BY <3>3 DEF IInv, PortsByStep, StartsAfresh, Scanning
    <3> QED BY <3>1, <3>2, <3>3
  <2> QED BY <2>1 DEF PortsByStep
<1>5. EmulatorByStep'
  <2>1. ASSUME NEW u \in Threads
        PROVE  /\ emu'[u] # "off" \/ (\E p \in Ports : flock'[p] = u)
                    => pc'[u] \in {"connect", "verify", "have", "failed"}
               /\ (\E p \in Ports : listener'[p] = u) => emu'[u] = "up"
    <3>0. \A p \in Ports : (listener'[p] = u => listener[p] = u)
                           /\ (flock'[p] = u => flock[p] = u)
      BY <1>0 DEF Emulators
    <3>1. CASE Keeps(u) \/ (u = t /\ HasNoLonger(t, P))
      BY <3>0, <3>1 DEF IInv, EmulatorByStep, Keeps, HasNoLonger
    <3>2. CASE u = t /\ StartsAfresh(t, P)
      BY <3>2 DEF StartsAfresh
    <3> QED BY <3>1, <3>2
  <2> QED BY <2>1 DEF EmulatorByStep
<1>6. ConnListens'
  <2>1. ASSUME NEW u \in Threads, pc'[u] = "verify", job'[u].conn # NoOne
        PROVE  listener'[job'[u].port] = job'[u].conn
    <3>1. pc[u] = "verify" /\ job'[u].port = job[u].port /\ (u # t \/ gone = {})
      BY <2>1 DEF Keeps, StartsAfresh, HasNoLonger
    <3>2. job'[u].conn = job[u].conn /\ job[u].conn \notin gone
      BY <2>1, <3>1
    <3>3. listener[job[u].port] = job[u].conn
      BY <2>1, <3>1, <3>2 DEF IInv, ConnListens
    <3>4. job[u].port \in Ports
      BY <3>1, PortsOfType DEF IInv, PortsByStep, Scanning
    <3>5. job[u].conn \in Emulators
      BY <2>1, <3>2, PortsOfType DEF IInv
    <3> QED BY <1>0, <3>1, <3>2, <3>3, <3>4, <3>5
  <2> QED BY <2>1 DEF ConnListens
<1>7. TalksToOwn'
  <2>1. ASSUME NEW u \in Threads, pc'[u] = "have", flock'[job'[u].port] = u
        PROVE  job'[u].conn \in {u, NoOne}
    <3>1. pc[u] = "have" /\ job'[u].port = job[u].port
      BY <2>1 DEF Keeps, StartsAfresh, HasNoLonger
    <3>2. job[u].port \in Ports
      BY <3>1, PortsOfType DEF IInv, PortsByStep, Scanning
    <3>3. flock[job[u].port] = u
      BY <1>0, <2>1, <3>1, <3>2 DEF Emulators
    <3>4. job[u].conn \in {u, NoOne}
      BY <3>1, <3>3 DEF IInv, TalksToOwn
    <3> QED BY <3>4
  <2> QED BY <2>1 DEF TalksToOwn
<1>8. OnAccount'
  <2>1. ASSUME NEW k \in Managers, NEW p \in Ports,
               p \in allocated'[k] \/ flock'[p] = k
        PROVE  \E u \in Threads : MgrOf[u] = k /\ p \in PortsOf(u)'
    <3>1. /\ p \in allocated[k] \/ flock[p] = k
          /\ ~(k = m /\ p \in P)
      BY <1>0, <2>1
    <3>2. PICK u \in Threads : MgrOf[u] = k /\ p \in PortsOf(u)
      BY <3>1 DEF IInv, OnAccount
    <3>3. ~(u = t /\ StartsAfresh(t, P))
      BY <3>1, <3>2 DEF StartsAfresh
    <3> QED BY <1>1, <3>2, <3>3
  <2>2. ASSUME NEW k \in Managers, NEW p \in Ports, listener'[p] = k
        PROVE  \E u \in Threads : MgrOf[u] = k /\
                  (p \in PortsOf(u)' \/ (pc'[u] = "flock" /\ p = job'[u].cursor))
    <3>1. listener[p] = k /\ ~(k = m /\ p \in P)
      BY <1>0, <2>2
    <3>2. PICK u \in Threads : MgrOf[u] = k /\
                  (p \in PortsOf(u) \/ (pc[u] = "flock" /\ p = job[u].cursor))
      BY <3>1 DEF IInv, OnAccount
    <3>3. ~(u = t /\ StartsAfresh(t, P))
      BY <3>1, <3>2 DEF StartsAfresh
    <3>4. pc[u] = "flock" => pc'[u] = "flock" /\ job'[u].cursor = job[u].cursor
      BY <1>2, <3>2, <3>3 DEF Keeps, HasNoLonger, Scanning
    <3> QED BY <1>1, <3>2, <3>3, <3>4
  <2> QED BY <2>1, <2>2 DEF OnAccount
<1>9. ASSUME ~misfreed'
      PROVE  /\ \A u \in Threads : MgrOf[u] = m => Uses(u)' = Uses(u) \ P
             /\ \A u \in Threads : MgrOf[u] # m => Uses(u)' = Uses(u)
             /\ ~misfreed
  <2>1. ASSUME NEW u \in Threads \ {t}, MgrOf[u] = m PROVE Uses(u) \cap P = {}
    BY <1>9, <2>1
  <2>2. Keeps(t) => Uses(t) \cap P = {}
    BY <1>9
  <2>3. ~Keeps(t) => P = PortsOf(t) /\ Uses(t)' = {}
    BY <1>1 DEF StartsAfresh, HasNoLonger
  <2> QED BY <1>1, <1>9, <2>1, <2>2, <2>3
<1>10. AllocatorAgrees'
  <2>1. SUFFICES ASSUME ~misfreed' PROVE AllocatorAgrees'
    BY DEF AllocatorAgrees
  <2>2. ASSUME NEW k \in Managers, NEW q \in Ports
        PROVE  q \in allocated'[k]
                 <=> \E u \in Threads : MgrOf[u] = k /\ q \in Uses(u)'
    <3>1. q \in allocated[k] <=> \E u \in Threads : MgrOf[u] = k /\ q \in Uses(u)
      BY <1>9, <2>1 DEF IInv, AllocatorAgrees
    <3> QED BY <1>9, <2>1, <3>1
  <2>3. ASSUME NEW u \in Threads, NEW v \in Threads, MgrOf[u] = MgrOf[v], u # v
        PROVE  Uses(u)' \cap Uses(v)' = {}
    <3>1. Uses(u) \cap Uses(v) = {}
      BY <1>9, <2>1, <2>3 DEF IInv, AllocatorAgrees
    <3> QED BY <1>9, <2>1, <3>1
  <2> QED BY <2>2, <2>3 DEF AllocatorAgrees
<1>11. LockedFromStart'
  <2>1. ASSUME ~misfreed', NEW u \in Threads, NEW q \in PortsOf(u)',
               ~ReuseExisting[MgrOf[u]]
        PROVE  /\ Scanning(u)' \/ pc'[u] \in {"begin", "handover"} => flock'[q] = MgrOf[u]
               /\ pc'[u] \in {"connect", "verify"} => flock'[q] = u
    <3>1. CASE Keeps(u)
      <4>1. pc'[u] = pc[u] /\ q \in PortsOf(u) /\ q \in Ports
        BY <1>1, <2>1, <3>1, PortsOfType DEF IInv, Keeps
      <4>2. ASSUME Scanning(u) \/ pc[u] \in {"begin", "handover"}
            PROVE  flock'[q] = MgrOf[u]
        <5>1. flock[q] = MgrOf[u]
          BY <1>9, <2>1, <4>1, <4>2 DEF IInv, LockedFromStart
        <5>2. ~job[u].freed /\ Uses(u) = PortsOf(u)
          BY <4>2 DEF IInv, PortsByStep, Scanning, Uses
        <5>3. MgrOf[u] = m => q \notin P
          BY <2>1, <3>1, <4>1, <5>2
        <5> QED BY <4>1, <5>1, <5>3
      <4>3. ASSUME pc[u] \in {"connect", "verify"}
            PROVE  flock'[q] = u
        <5>1. flock[q] = u
          BY <1>9, <2>1, <4>1, <4>3 DEF IInv, LockedFromStart
        <5>2. u # t \/ gone = {}
          BY <4>3 DEF StartsAfresh
        <5> QED BY <4>1, <5>1, <5>2
      <4> QED BY <4>1, <4>2, <4>3 DEF Scanning
    <3>2. CASE u = t /\ HasNoLonger(t, P)
      BY <3>2 DEF HasNoLonger, Scanning
    <3>3. CASE u = t /\ StartsAfresh(t, P)
      BY <1>1, <2>1, <3>3
    <3> QED BY <3>1, <3>2, <3>3
  <2> QED BY <2>1 DEF LockedFromStart
<1> QED BY <1>3, <1>4, <1>5, <1>6, <1>7, <1>8, <1>10, <1>11 DEF IInv

(* release() frees the ports of an instance that is stopped.                *)
LEMMA ReleasePortsIInv ==
    ASSUME IInv, NEW t \in Threads, ReleasePorts(t) PROVE IInv'
<1> DEFINE m == MgrOf[t]
           P == PortsOf(t)
           gone == {}
<1>1. /\ pc[t] = "release" /\ AllocatorFree(m)
      /\ misfreed' = (misfreed \/ UsedByAnother(t, P))
      /\ Outlived(t) /\ FreePorts(m, P)
      /\ job' = [job EXCEPT ![t] = NewJob] /\ pc' = [pc EXCEPT ![t] = "idle"]
      /\ UNCHANGED <<emu, listed>>
  BY DEF ReleasePorts, Goto
<1>2. /\ job \in [Threads -> Jobs] /\ P \subseteq Ports
      /\ m \in Managers /\ m # NoOne /\ m \notin Threads
  BY PortsOfType DEF IInv, TypeOK
<1>3. /\ job' \in [Threads -> Jobs] /\ job'[t] = NewJob
      /\ \A u \in Threads \ {t} : job'[u] = job[u] /\ pc'[u] = pc[u]
      /\ pc'[t] = "idle"
      /\ pc' \in [Threads -> {"idle", "scan", "flock", "begin", "adopt",
                              "handover", "connect", "verify", "failed",
                              "have", "release"}]
  BY <1>1, <1>2, NewJobProperties DEF IInv, TypeOK
<1> HIDE DEF m, P
<1>4. /\ allocated' \in [Managers -> SUBSET Ports]
      /\ \A p \in Ports : p \in allocated'[m] <=> p \in allocated[m] \ P
      /\ \A k \in Managers \ {m} : allocated'[k] = allocated[k]
  BY <1>1, <1>2 DEF FreePorts, IInv, TypeOK
<1>5. /\ listener' \in [Ports -> Managers \cup Emulators \cup {NoOne}]
      /\ \A p \in Ports : listener'[p] =
            IF listener[p] \in gone \/ (p \in P /\ listener[p] = m) THEN NoOne ELSE listener[p]
  BY <1>1 DEF FreePorts, Without, IInv, TypeOK
<1>6. /\ flock' \in [Ports -> Managers \cup Threads \cup {NoOne}]
      /\ \A p \in Ports : flock'[p] =
            IF flock[p] \in gone \/ (p \in P /\ flock[p] = m) THEN NoOne ELSE flock[p]
  BY <1>1 DEF FreePorts, Without, IInv, TypeOK
<1>7. \A k \in Managers : \A i \in closing'[k] :
        \E j \in closing[k] :
            /\ i.thread = j.thread /\ i.ports = j.ports
            /\ i.current => j.current /\ j.thread # t
            /\ i \in [thread : Threads, ports : SUBSET Ports,
                      current : BOOLEAN, stopped : BOOLEAN]
  <2> TAKE k \in Managers
  <2> TAKE i \in closing'[k]
  <2>2. PICK j \in closing[k] :
            i = IF j.thread = t THEN [j EXCEPT !.current = FALSE] ELSE j
    BY <1>1 DEF Outlived
  <2>3. j \in [thread : Threads, ports : SUBSET Ports,
               current : BOOLEAN, stopped : BOOLEAN]
    BY <2>2 DEF IInv, TypeOK
  <2>4. CASE j.thread = t
    <3>1. i = [j EXCEPT !.current = FALSE]
      BY <2>2, <2>4
    <3> QED BY <2>3, <3>1
  <2>5. CASE j.thread # t
    BY <2>2, <2>3, <2>5
  <2> QED BY <2>4, <2>5
<1>8. closing' \in [Managers -> Closings]
  <2>1. closing' = [k \in Managers |-> closing'[k]]
    BY <1>1 DEF Outlived
  <2>2. \A k \in Managers : closing'[k] \in Closings
    BY <1>7 DEF Closings
  <2> QED BY <2>1, <2>2
<1>9. misfreed' \in BOOLEAN
  BY <1>1 DEF IInv, TypeOK, UsedByAnother
<1>10. TypeOK'
  BY <1>1, <1>3, <1>4, <1>5, <1>6, <1>8, <1>9 DEF IInv, TypeOK, Closings
<1>11. ClosingIsMine'
  <2>1. ASSUME NEW k \in Managers, NEW i \in closing'[k]
        PROVE  /\ MgrOf[i.thread] = k
               /\ i.current => /\ pc'[i.thread] \in {"have", "release"}
                               /\ i.ports = PortsOf(i.thread)'
    <3>1. PICK j \in closing[k] :
            /\ i.thread = j.thread /\ i.ports = j.ports
            /\ i.current => j.current /\ j.thread # t
            /\ i.thread \in Threads
      BY <1>7
    <3>2. /\ MgrOf[j.thread] = k
          /\ j.current => /\ pc[j.thread] \in {"have", "release"}
                          /\ j.ports = PortsOf(j.thread)
      BY <3>1 DEF IInv, ClosingIsMine
    <3> QED BY <1>3, <3>1, <3>2 DEF PortsOf
  <2> QED BY <2>1 DEF ClosingIsMine
<1>12. StartsAfresh(t, P)
  <2>1. \A p \in Ports : flock[p] # t /\ listener[p] # t
    BY <1>1 DEF IInv, EmulatorByStep
  <2>2. \A p \in Ports : flock'[p] # t /\ listener'[p] # t
    BY <1>5, <1>6, <2>1
  <2>3. emu'[t] = "off"
    BY <1>1 DEF IInv, EmulatorByStep
  <2> QED BY <1>1, <1>3, <2>2, <2>3, NewJobProperties DEF StartsAfresh, P
<1>13. \A u \in Threads \ {t} : Keeps(u)
  BY <1>1, <1>3 DEF Keeps
<1>14. ~misfreed' => /\ ~misfreed
                     /\ \A u \in Threads : MgrOf[u] = m /\ Uses(u) \cap P # {}
                            => u = t /\ ~Keeps(t)
  BY <1>1, <1>3 DEF UsedByAnother, Keeps, m
<1>15. \A u \in Threads : /\ job'[u].conn \in {job[u].conn, NoOne}
                          /\ u # t /\ job'[u].conn # NoOne => job[u].conn \notin gone
  BY <1>3, NewJobProperties
<1>16. m = MgrOf[t]
  BY DEF m
<1>17. gone \in SUBSET {t} /\ P \in SUBSET Ports
  BY <1>2
<1>18. Frees(t, m, P, gone)
  BY <1>1, <1>4, <1>5, <1>6, <1>12, <1>13, <1>14, <1>15 DEF Frees
<1> HIDE DEF gone
<1> QED BY <1>1, <1>2, <1>10, <1>11, <1>16, <1>17, <1>18, FreeProperties

(* A failed start stops its emulator and frees its ports.                   *)
LEMMA FailedIInv ==
    ASSUME IInv, NEW t \in Threads, Failed(t) PROVE IInv'
<1> DEFINE m == MgrOf[t]
           P == PortsOf(t)
           gone == {t}
<1>1. /\ pc[t] = "failed" /\ AllocatorFree(m)
      /\ emu' = [emu EXCEPT ![t] = "off"]
      /\ allocated' = [allocated EXCEPT ![m] = @ \ P]
      /\ listener' = Without(listener, {t}, m, P)
      /\ flock' = Without(flock, {t}, m, P)
      /\ misfreed' = (misfreed \/ UsedByAnother(t, P))
      /\ job' = [Gone(t) EXCEPT ![t] = Again(job[t])]
      /\ pc' = [pc EXCEPT ![t] = AgainAt(job[t])]
      /\ UNCHANGED <<listed, closing>>
  BY DEF Failed, Goto
<1>2. /\ job[t] \in Jobs /\ P \subseteq Ports
      /\ m \in Managers /\ m # NoOne /\ m \notin Emulators
      /\ t \in Emulators /\ t # NoOne
  BY PortsOfType DEF IInv, TypeOK, Emulators
<1>3. /\ Again(job[t]) \in Jobs
      /\ Again(job[t]).port = NoPort /\ Again(job[t]).text = NoPort
      /\ Again(job[t]).freed = FALSE /\ Again(job[t]).conn = NoOne
      /\ AgainAt(job[t]) \in {"scan", "idle"}
  BY <1>2, AgainProperties
<1>4. \A u \in Threads \ {t} :
        /\ Gone(t)[u] \in Jobs
        /\ Gone(t)[u].port = job[u].port /\ Gone(t)[u].text = job[u].text
        /\ Gone(t)[u].cursor = job[u].cursor /\ Gone(t)[u].freed = job[u].freed
        /\ Gone(t)[u].conn = IF job[u].conn = t THEN NoOne ELSE job[u].conn
  <2> TAKE u \in Threads \ {t}
  <2>1. job[u] \in Jobs
    BY DEF IInv, TypeOK
  <2>2. CASE job[u].conn = t
    <3>1. Gone(t)[u] = [job[u] EXCEPT !.conn = NoOne]
      BY <2>2 DEF Gone
    <3>2. [job[u] EXCEPT !.conn = NoOne] \in Jobs
      BY <2>1, Zenon DEF Jobs
    <3> QED BY <2>1, <2>2, <3>1, <3>2 DEF Jobs
  <2>3. CASE job[u].conn # t
    <3>1. Gone(t)[u] = job[u]
      BY <2>3 DEF Gone
    <3> QED BY <2>1, <2>3, <3>1
  <2> QED BY <2>2, <2>3
<1>5. /\ job'[t] = Again(job[t])
      /\ \A u \in Threads \ {t} : job'[u] = Gone(t)[u]
      /\ job' \in [Threads -> Jobs]
  <2>1. Gone(t) = [u \in Threads |-> Gone(t)[u]]
    BY DEF Gone
  <2> HIDE DEF m, P
  <2>2. /\ job'[t] = Again(job[t]) /\ \A u \in Threads \ {t} : job'[u] = Gone(t)[u]
        /\ job' = [u \in Threads |-> job'[u]]
    BY <1>1, <2>1
  <2> QED BY <1>3, <1>4, <2>2
<1>6. /\ pc' \in [Threads -> {"idle", "scan", "flock", "begin", "adopt",
                              "handover", "connect", "verify", "failed",
                              "have", "release"}]
      /\ pc'[t] \in {"scan", "idle"} /\ \A u \in Threads \ {t} : pc'[u] = pc[u]
      /\ emu' \in [Threads -> {"off", "booting", "up"}]
      /\ emu'[t] = "off" /\ \A u \in Threads \ {t} : emu'[u] = emu[u]
  BY <1>1, <1>3 DEF IInv, TypeOK
<1> HIDE DEF m, P
<1>7. /\ allocated' \in [Managers -> SUBSET Ports]
      /\ \A p \in Ports : p \in allocated'[m] <=> p \in allocated[m] \ P
      /\ \A k \in Managers \ {m} : allocated'[k] = allocated[k]
  BY <1>1, <1>2 DEF IInv, TypeOK
<1>8. /\ listener' \in [Ports -> Managers \cup Emulators \cup {NoOne}]
      /\ \A p \in Ports : listener'[p] =
            IF listener[p] \in gone \/ (p \in P /\ listener[p] = m)
            THEN NoOne ELSE listener[p]
  BY <1>1 DEF Without, IInv, TypeOK
<1>9. /\ flock' \in [Ports -> Managers \cup Threads \cup {NoOne}]
      /\ \A p \in Ports : flock'[p] =
            IF flock[p] \in gone \/ (p \in P /\ flock[p] = m)
            THEN NoOne ELSE flock[p]
  BY <1>1 DEF Without, IInv, TypeOK
<1>10. misfreed' \in BOOLEAN
  BY <1>1 DEF IInv, TypeOK, UsedByAnother
<1>11. TypeOK'
  BY <1>1, <1>5, <1>6, <1>7, <1>8, <1>9, <1>10 DEF IInv, TypeOK
<1>12. \A u \in Threads \ {t} : Keeps(u) /\ PortsOf(u)' = PortsOf(u)
  BY <1>4, <1>5, <1>6 DEF Keeps, PortsOf
<1>13. ClosingIsMine'
  BY <1>1, <1>6, <1>12 DEF IInv, TypeOK, ClosingIsMine
<1>14. StartsAfresh(t, P)
  <2>1. \A p \in Ports : flock'[p] # t /\ listener'[p] # t
    BY <1>2, <1>8, <1>9
  <2> QED BY <1>1, <1>3, <1>5, <1>6, <2>1 DEF StartsAfresh, P
<1>15. ~misfreed' => /\ ~misfreed
                     /\ \A u \in Threads : MgrOf[u] = m /\ Uses(u) \cap P # {}
                            => u = t /\ ~Keeps(t)
  BY <1>1, <1>6 DEF UsedByAnother, Keeps, m
<1>16. \A u \in Threads : /\ job'[u].conn \in {job[u].conn, NoOne}
                          /\ u # t /\ job'[u].conn # NoOne => job[u].conn \notin gone
  BY <1>3, <1>4, <1>5
<1>17. m = MgrOf[t]
  BY DEF m
<1>18. gone \in SUBSET {t} /\ P \in SUBSET Ports
  BY <1>2
<1>19. Frees(t, m, P, gone)
  BY <1>1, <1>7, <1>8, <1>9, <1>12, <1>14, <1>15, <1>16 DEF Frees
<1> HIDE DEF gone
<1> QED BY <1>1, <1>2, <1>11, <1>13, <1>17, <1>18, <1>19, FreeProperties

(* shutdown() frees the ports it listed, though they may be another's by    *)
(* now.                                                                     *)
LEMMA ShutdownFreeIInv ==
    ASSUME IInv, NEW m \in Managers, NEW i \in closing[m], ShutdownFree(m, i)
    PROVE  IInv'
<1> DEFINE t == i.thread
           P == i.ports
           gone == {}
<1>1. /\ AllocatorFree(m)
      /\ closing' = [closing EXCEPT ![m] = @ \ {i}]
      /\ FreePorts(m, P)
      /\ misfreed' = (misfreed \/ \E u \in Threads :
                        /\ MgrOf[u] = m /\ Uses(u) \cap P # {}
                        /\ ~(u = t /\ i.current))
      /\ job' = IF i.current THEN [job EXCEPT ![t].freed = TRUE] ELSE job
      /\ UNCHANGED <<emu, pc, listed>>
  BY DEF ShutdownFree
<1>2. /\ t \in Threads /\ P \subseteq Ports /\ i.current \in BOOLEAN
      /\ MgrOf[t] = m /\ m # NoOne /\ m \notin Threads
      /\ i.current => pc[t] \in {"have", "release"} /\ P = PortsOf(t)
  BY DEF IInv, TypeOK, ClosingIsMine
<1>3. /\ job' \in [Threads -> Jobs]
      /\ \A u \in Threads \ {t} : job'[u] = job[u]
      /\ job'[t].port = job[t].port /\ job'[t].text = job[t].text
      /\ job'[t].cursor = job[t].cursor /\ job'[t].conn = job[t].conn
      /\ job'[t].freed = IF i.current THEN TRUE ELSE job[t].freed
  <2>1. job \in [Threads -> Jobs] /\ job[t] \in Jobs
    BY <1>2 DEF IInv, TypeOK
  <2>2. CASE i.current
    <3>1. [job[t] EXCEPT !.freed = TRUE] \in Jobs
      BY <2>1, Zenon DEF Jobs
    <3> HIDE DEF t
    <3>2. job' = [job EXCEPT ![t] = [job[t] EXCEPT !.freed = TRUE]]
      BY <1>1, <2>2
    <3>3. /\ job' \in [Threads -> Jobs]
          /\ job'[t] = [job[t] EXCEPT !.freed = TRUE]
          /\ \A u \in Threads \ {t} : job'[u] = job[u]
      BY <1>2, <2>1, <3>1, <3>2
    <3> QED BY <2>1, <2>2, <3>3 DEF Jobs
  <2>3. CASE ~i.current
    BY <1>1, <2>1, <2>3
  <2> QED BY <2>2, <2>3
<1> HIDE DEF t, P
<1>4. \A u \in Threads : PortsOf(u)' = PortsOf(u)
  BY <1>3 DEF PortsOf
<1>5. /\ allocated' \in [Managers -> SUBSET Ports]
      /\ \A p \in Ports : p \in allocated'[m] <=> p \in allocated[m] \ P
      /\ \A k \in Managers \ {m} : allocated'[k] = allocated[k]
  BY <1>1, <1>2 DEF FreePorts, IInv, TypeOK
<1>6. /\ listener' \in [Ports -> Managers \cup Emulators \cup {NoOne}]
      /\ \A p \in Ports : listener'[p] =
            IF listener[p] \in gone \/ (p \in P /\ listener[p] = m) THEN NoOne ELSE listener[p]
  BY <1>1 DEF FreePorts, Without, IInv, TypeOK
<1>7. /\ flock' \in [Ports -> Managers \cup Threads \cup {NoOne}]
      /\ \A p \in Ports : flock'[p] =
            IF flock[p] \in gone \/ (p \in P /\ flock[p] = m) THEN NoOne ELSE flock[p]
  BY <1>1 DEF FreePorts, Without, IInv, TypeOK
<1>8. /\ closing' \in [Managers -> Closings]
      /\ \A k \in Managers : closing'[k] \subseteq closing[k]
  BY <1>1 DEF IInv, TypeOK, Closings
<1>9. misfreed' \in BOOLEAN
  BY <1>1 DEF IInv, TypeOK
<1>10. TypeOK'
  BY <1>1, <1>3, <1>5, <1>6, <1>7, <1>8, <1>9 DEF IInv, TypeOK, Closings
<1>11. ClosingIsMine'
  BY <1>1, <1>4, <1>8 DEF IInv, TypeOK, ClosingIsMine
<1>12. HasNoLonger(t, P) \/ Keeps(t)
  BY <1>1, <1>2, <1>3 DEF HasNoLonger, Keeps
<1>13. \A u \in Threads \ {t} : Keeps(u)
  BY <1>1, <1>3 DEF Keeps
<1>14. ~misfreed' => /\ ~misfreed
                     /\ \A u \in Threads : MgrOf[u] = m /\ Uses(u) \cap P # {}
                            => u = t /\ ~Keeps(t)
  <2>1. ASSUME ~misfreed', NEW u \in Threads, MgrOf[u] = m, Uses(u) \cap P # {}
        PROVE  u = t /\ i.current /\ ~job[u].freed
    BY <1>1, <2>1 DEF Uses
  <2> QED BY <1>1, <1>3, <2>1 DEF Keeps
<1>15. \A u \in Threads : /\ job'[u].conn \in {job[u].conn, NoOne}
                          /\ u # t /\ job'[u].conn # NoOne => job[u].conn \notin gone
  BY <1>3
<1>16. gone \in SUBSET {t} /\ P \in SUBSET Ports
  BY <1>2
<1>17. Frees(t, m, P, gone)
  BY <1>1, <1>5, <1>6, <1>7, <1>12, <1>13, <1>14, <1>15 DEF Frees
<1> HIDE DEF gone
<1> QED BY <1>1, <1>2, <1>10, <1>11, <1>16, <1>17, FreeProperties

-----------------------------------------------------------------------------
(* Every step is one of these.                                              *)
LEMMA StepIInv ==
    ASSUME IInv, [Next]_vars PROVE IInv'
<1>1. ASSUME NEW t \in Threads,
             \/ Acquire(t) \/ ScanSkip(t) \/ ScanInUse(t) \/ ScanBind(t)
             \/ TryLock(t) \/ Exhausted(t)
             \/ Begin(t) \/ AdoptConnect(t) \/ HandOver(t)
             \/ Connect(t) \/ Verify(t) \/ StartFails(t) \/ Failed(t)
             \/ Release(t) \/ ReleasePorts(t)
             \/ EmuBind(t) \/ EmuExit(t)
      PROVE  IInv'
  BY <1>1, AcquireIInv, ScanSkipIInv, ScanInUseIInv, ScanBindIInv, TryLockIInv,
     ExhaustedIInv, BeginIInv, AdoptConnectIInv, HandOverIInv, ConnectIInv,
     VerifyIInv, FailedIInv, ReleaseIInv, ReleasePortsIInv, EmuBindIInv,
     EmuExitIInv
<1>2. ASSUME NEW m \in Managers,
             \/ Shutdown(m)
             \/ \E i \in closing[m] : ShutdownStop(m, i) \/ ShutdownFree(m, i)
      PROVE  IInv'
  BY <1>2, ShutdownIInv, ShutdownStopIInv, ShutdownFreeIInv
<1>3. ASSUME NEW p \in OutsiderPorts, OutsiderStarts(p) \/ OutsiderExits(p)
      PROVE  IInv'
  BY <1>3, OutsiderIInv
<1>4. CASE UNCHANGED vars
  <2>1. UNCHANGED <<allocated, listener, flock, emu, pc, job, listed, closing, misfreed>>
    BY <1>4 DEF vars
  <2>2. \A t \in Threads : /\ PortsOf(t)' = PortsOf(t) /\ Uses(t)' = Uses(t)
                           /\ Scanning(t)' = Scanning(t)
    BY <2>1 DEF PortsOf, Uses, Scanning
  <2>3. TypeOK' /\ OneScans' /\ PortsByStep' /\ EmulatorByStep' /\ ConnListens'
    BY <2>1, <2>2 DEF IInv, TypeOK, OneScans, PortsByStep, EmulatorByStep, ConnListens
  <2>4. ClosingIsMine' /\ OnAccount' /\ AllocatorAgrees' /\ LockedFromStart' /\ TalksToOwn'
    BY <2>1, <2>2 DEF IInv, TypeOK, ClosingIsMine, OnAccount, AllocatorAgrees,
       LockedFromStart, TalksToOwn
  <2> QED BY <2>3, <2>4 DEF IInv
<1> QED BY <1>1, <1>2, <1>3, <1>4 DEF Next

(* The invariant holds whatever the managers, their threads, their          *)
(* emulators and somebody else's do, in any order.                          *)
THEOREM Invariant == Spec => []IInv
<1>1. Init => IInv
  BY InitIInv
<1>2. IInv /\ [Next]_vars => IInv'
  BY StepIInv
<1> QED BY <1>1, <1>2, PTL DEF Spec

(* From the close of its reservation to the end of its launch a port stays  *)
(* locked for the instance that is being started.                           *)
THEOREM LaunchStaysLocked == Spec => []LaunchIsLocked
<1>1. IInv => LaunchIsLocked
  BY DEF IInv, LockedFromStart, LaunchIsLocked
<1> QED BY <1>1, Invariant, PTL

(* The allocator's set is exactly the ports its instances use, and no port  *)
(* is given to two instances.                                               *)
THEOREM AllocatorIsExact == Spec => []AllocatorAgrees
<1>1. IInv => AllocatorAgrees
  BY DEF IInv
<1> QED BY <1>1, Invariant, PTL

(* A launched instance is never connected to another emulator that lives.   *)
THEOREM OwnEmulator == Spec => []TalksToOwn
<1>1. IInv => TalksToOwn
  BY DEF IInv
<1> QED BY <1>1, Invariant, PTL

(* A manager whose threads are done and that is not shutting down has no    *)
(* port, no reservation, no lock and no emulator left.                      *)
THEOREM NothingIsLeft == Spec => []NothingLeaks
<1>1. ASSUME IInv PROVE NothingLeaks
  <2>1. SUFFICES ASSUME NEW m \in Managers,
                        \A t \in Threads : MgrOf[t] = m => pc[t] = "idle"
                 PROVE  /\ allocated[m] = {}
                        /\ \A p \in Ports :
                             /\ listener[p] # m /\ flock[p] # m
                             /\ \A t \in Threads : MgrOf[t] = m =>
                                   listener[p] # t /\ flock[p] # t
                        /\ \A t \in Threads : MgrOf[t] = m => emu[t] = "off"
    BY DEF NothingLeaks
  <2>2. \A t \in Threads : MgrOf[t] = m => PortsOf(t) = {} /\ pc[t] # "flock"
    BY <1>1, <2>1 DEF IInv, PortsByStep, PortsOf
  <2>3. \A p \in Ports : p \notin allocated[m] /\ flock[p] # m /\ listener[p] # m
    BY <1>1, <2>2 DEF IInv, OnAccount
  <2>4. \A t \in Threads : MgrOf[t] = m =>
          emu[t] = "off" /\ \A p \in Ports : flock[p] # t /\ listener[p] # t
    BY <1>1, <2>1 DEF IInv, EmulatorByStep
  <2>5. allocated[m] \subseteq Ports
    BY <1>1 DEF IInv, TypeOK
  <2> QED BY <2>3, <2>4, <2>5
<1>2. IInv => NothingLeaks
  BY <1>1
<1> QED BY <1>2, Invariant, PTL

=============================================================================
