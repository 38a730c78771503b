----------------------------- MODULE TempLedger -----------------------------
(* backends/ultimate64_temp_gc.py and the part of ultimate64_client.py that *)
(* uses it: the accounting of the attachments that uploads leave in a       *)
(* leak-prone device's /Temp, and the FTP sweeps that collect them.         *)
(*                                                                          *)
(* One process, one device.  The ledger's RLock is held across a gate, its  *)
(* sweep and the count that follows, and across a drain; while a sweep runs *)
(* only the device, the requests being sent and the device lock move.       *)
(* Every request belongs to a thread, every thread uses one client.         *)
(*                                                                          *)
(* generation is not kept as a number: a share or a reservation is used     *)
(* only if it is of the current generation, so a sweep zeroes the shares    *)
(* and marks the reservations as stale.  swept_epoch likewise: swept says   *)
(* whether it is the current epoch.                                         *)

EXTENDS Integers, Sequences, FiniteSets

CONSTANTS Threads, NoThread,
          Clients, NoClient,
          ClientOf,             \* the client a thread uses
          Required,             \* U64_TEMP_GC_REQUIRED
          Keep,                 \* U64_TEMP_GC_KEEP
          Budget,               \* U64_TEMP_GC_BUDGET
          Costs,                \* Costs[t]: what t's operations may reserve
          MaxFiles,             \* bound: files in /Temp
          MaxPending            \* bound: the count a request may find

ASSUME LedgerAssumption ==
    /\ IsFiniteSet(Threads) /\ NoThread \notin Threads
    /\ Threads \cap {"armed", "disarmed", "other", "kept", "passed"} = {}
    /\ IsFiniteSet(Clients) /\ NoClient \notin Clients
    /\ ClientOf \in [Threads -> Clients]
    /\ Required \in BOOLEAN
    /\ Keep \in Nat
    /\ Budget \in Nat \ {0}
    /\ Costs \in [Threads -> SUBSET (Nat \ {0})]
    /\ MaxFiles \in Nat /\ MaxPending \in Nat

DEFAULT_KEEP == 1

VARIABLES ledger,               \* TempLedger's fields
          own,                  \* own[c]: _own_temp_attachments, 0 if stale
          resv,                 \* resv[t]: the reservation of t's request
          armed,                \* clients with the hygiene pass armed
          lock,                 \* the DeviceLock of this process
          sweep,                \* the pass that holds the ledger's lock
          files                 \* managed files in /Temp, oldest first

vars == <<ledger, own, resv, armed, lock, sweep, files>>

-----------------------------------------------------------------------------
(* State                                                                    *)

NoResv == [count |-> 0, landed |-> 0, armed |-> FALSE, current |-> FALSE]

NoSweep == [phase |-> "idle", why |-> "none", client |-> NoClient,
            thread |-> NoThread, count |-> 0, listed |-> 0, doomed |-> {}]

(* What a file is: part of the reservation of a thread's request; uploaded  *)
(* by an armed or a disarmed client of this process since the last sweep;   *)
(* left by another lane; spared by a sweep; or passed over by one that      *)
(* nevertheless succeeded.                                                  *)
Origins == Threads \cup {"armed", "disarmed", "other", "kept", "passed"}

Ledgers == [pending : Nat, in_flight : Nat, in_flight_armed : Nat,
            armed_pending : BOOLEAN, blocked : BOOLEAN,
            swept : BOOLEAN, ftp_enable_attempted : BOOLEAN]
Reservations == [count : Nat, landed : Nat, armed : BOOLEAN, current : BOOLEAN]
Sweeps == [phase : {"idle", "list", "delete"},
           why : {"none", "handover", "budget", "leaked", "inherited", "orphan"},
           client : Clients \cup {NoClient},
           thread : Threads \cup {NoThread},
           count : Nat,
           listed : 0 .. MaxFiles,
           doomed : SUBSET (1 .. MaxFiles)]

TypeOK ==
    /\ ledger \in Ledgers
    /\ own \in [Clients -> Nat]
    /\ resv \in [Threads -> Reservations]
    /\ armed \subseteq Clients
    /\ lock \in {"off", "held", "draining", "drained"}
    /\ sweep \in Sweeps
    /\ files \in Seq([by : Origins, mounted : BOOLEAN])
    /\ Len(files) <= MaxFiles

Init == /\ ledger = [pending |-> 0, in_flight |-> 0, in_flight_armed |-> 0,
                     armed_pending |-> FALSE, blocked |-> FALSE,
                     swept |-> FALSE, ftp_enable_attempted |-> FALSE]
        /\ own = [c \in Clients |-> 0]
        /\ resv = [t \in Threads |-> NoResv]
        /\ armed = {}
        /\ lock = "off"
        /\ sweep = NoSweep
        /\ files = <<>>

Free == sweep.phase = "idle"            \* nobody holds the ledger's lock

Sending(t) == resv[t].count > 0

(* lock_held_for(): the registry is purged after the release callbacks.     *)
Held == lock # "off"

AtLeastZero(n) == IF n > 0 THEN n ELSE 0

SweepKeep == IF Keep > DEFAULT_KEEP + ledger.in_flight
             THEN Keep ELSE DEFAULT_KEEP + ledger.in_flight

-----------------------------------------------------------------------------
(* The ledger's own operations                                              *)

(* Mutant: a sweep that zeroes the count.                                   *)
CollectedToZero(l) ==
    [l EXCEPT !.pending = 0, !.blocked = FALSE, !.swept = TRUE,
              !.armed_pending = l.in_flight_armed > 0]

(* Mutant: a sweep that forgets which requests in flight are armed.         *)
CollectedDisarmed(l) ==
    [l EXCEPT !.pending = l.in_flight, !.blocked = FALSE, !.swept = TRUE,
              !.armed_pending = FALSE]

(* collected()                                                              *)
Collected(l) ==
    [l EXCEPT !.pending = l.in_flight, !.blocked = FALSE, !.swept = TRUE,
              !.armed_pending = l.in_flight_armed > 0]

(* _count_temp_attachments() and begin_reservation()                        *)
Counted(l, n, isArmed) ==
    [l EXCEPT !.pending = l.pending + n,
              !.armed_pending = l.armed_pending \/ isArmed,
              !.in_flight = l.in_flight + n,
              !.in_flight_armed = IF isArmed THEN l.in_flight_armed + n
                                             ELSE l.in_flight_armed]

(* end_reservation()                                                        *)
Ended(l, n, isArmed, unsent) ==
    [l EXCEPT !.in_flight = AtLeastZero(l.in_flight - n),
              !.in_flight_armed = IF isArmed
                                  THEN AtLeastZero(l.in_flight_armed - n)
                                  ELSE l.in_flight_armed,
              !.pending = AtLeastZero(l.pending - unsent)]

(* The budget is checked against the device's count.                        *)
OverBudget(l, n) == l.pending > 0 /\ l.pending + n > Budget

-----------------------------------------------------------------------------
(* The gate and the count: _reserve_temp_attachments()                      *)

Reserve(t, n, l, o, r) ==
    /\ ledger' = Counted(l, n, ClientOf[t] \in armed)
    /\ own' = [o EXCEPT ![ClientOf[t]] = @ + n]
    /\ resv' = [r EXCEPT ![t] = [count |-> n, landed |-> 0,
                                 armed |-> ClientOf[t] \in armed,
                                 current |-> TRUE]]

Starts(t) == Free /\ ~Sending(t)

StartSweep(why, c, t, n) ==
    sweep' = [NoSweep EXCEPT !.phase = "list", !.why = why, !.client = c,
                             !.thread = t, !.count = n]

(* Mutant: the handover is not looked at.                                   *)
NoHandoverGate(t, n) ==
    \/ ClientOf[t] \notin armed
    \/ ledger.blocked /\ ~Required
    \/ ~ledger.blocked /\ Held /\ ~OverBudget(ledger, n)

(* _before_temp_attachment() lets the request through without a pass.  It   *)
(* refuses, and changes nothing, when the device is blocked or the lock is  *)
(* not held.                                                                *)
Passes(t, n) ==
    \/ ClientOf[t] \notin armed
    \/ ledger.blocked /\ ~Required
    \/ ~ledger.blocked /\ Held /\ ledger.swept /\ ~OverBudget(ledger, n)

Upload(t, n) == /\ Starts(t)
                /\ Passes(t, n)
                /\ ledger.pending <= MaxPending      \* bound
                /\ Reserve(t, n, ledger, own, resv)
                /\ UNCHANGED <<armed, lock, sweep, files>>

(* The first pass of the gate: the handover's, or the budget's.             *)
UploadSweeps(t, n) ==
    /\ Starts(t)
    /\ ClientOf[t] \in armed
    /\ ~ledger.blocked
    /\ Held
    /\ \/ ~ledger.swept /\ StartSweep("handover", ClientOf[t], t, n)
       \/ /\ ledger.swept /\ OverBudget(ledger, n)
          /\ StartSweep("budget", ClientOf[t], t, n)
    /\ UNCHANGED <<ledger, own, resv, armed, lock, files>>

-----------------------------------------------------------------------------
(* A sweep: gc_temp_folder() inside _run_temp_hygiene(),                    *)
(* _sweep_inherited_temp() or the ledger's own orphan sweep                 *)

(* Mutant: the keep-count has no room for the requests in flight.           *)
DoomedAboveKeep(n) ==
    LET candidates == {i \in 1 .. n : ~files[i].mounted}
    IN  {i \in candidates :
            Cardinality({j \in candidates : j > i}) >= DEFAULT_KEEP}

(* What of the first n files goes: all but the youngest that no drive has   *)
(* mounted.                                                                 *)
Doomed(n) ==
    LET candidates == {i \in 1 .. n : ~files[i].mounted}
    IN  {i \in candidates :
            Cardinality({j \in candidates : j > i}) >= SweepKeep}

(* NLST, then GET /v1/drives: what is mounted between the two is excluded   *)
(* as if mounted before, what lands between them is not on the list.        *)
SweepList == /\ sweep.phase = "list"
             /\ sweep' = [sweep EXCEPT !.phase = "delete",
                                       !.listed = Len(files),
                                       !.doomed = Doomed(Len(files))]
             /\ UNCHANGED <<ledger, own, resv, armed, lock, files>>

(* What follows the pass, with the ledger l, the shares o and reservations  *)
(* r it left: the gate goes on (a handover pass to the budget), or the      *)
(* drain ends.                                                              *)
GoesOn(l, o, r) ==
    LET refused == l.blocked /\ Required
        again == /\ sweep.why = "handover"
                 /\ ~l.blocked
                 /\ OverBudget(l, sweep.count)
    IN  \/ /\ again
           /\ sweep' = [sweep EXCEPT !.phase = "list", !.why = "budget",
                                     !.listed = 0, !.doomed = {}]
           /\ ledger' = l /\ own' = o /\ resv' = r
           /\ UNCHANGED lock
        \/ /\ sweep.thread # NoThread /\ ~again /\ ~refused
           /\ sweep' = NoSweep
           /\ Reserve(sweep.thread, sweep.count, l, o, r)
           /\ UNCHANGED lock
        \/ /\ sweep.thread = NoThread \/ refused
           /\ sweep' = NoSweep
           /\ ledger' = l /\ own' = o /\ resv' = r
           /\ lock' = IF lock = "draining" THEN "drained" ELSE lock

(* The one sequence that is left of s without the entries in D.             *)
Without(s, D) ==
    LET left == DOMAIN s \ D
        rising == {f \in [1 .. Cardinality(left) -> left] :
                      \A i, j \in DOMAIN f : i < j => f[i] < f[j]}
    IN  {[i \in DOMAIN f |-> s[f[i]]] : f \in rising}

(* What a successful sweep makes of the files it did not delete.            *)
After(i) == [files[i] EXCEPT
                !.by = IF files[i].by \in Threads THEN @
                       ELSE IF i \in 1 .. sweep.listed \ sweep.doomed
                            THEN "kept" ELSE "passed"]

(* The DELEs.  One that fails is logged and passed over: the sweep is a     *)
(* success whatever is left.                                                *)
SweepDelete ==
    /\ sweep.phase = "delete"
    /\ \E D \in SUBSET sweep.doomed :
        files' \in Without([i \in DOMAIN files |-> After(i)], D)
    /\ GoesOn(Collected(ledger),
              [c \in Clients |-> 0],
              [t \in Threads |-> [resv[t] EXCEPT !.current = FALSE]])
    /\ UNCHANGED armed

(* The session, the listing or the probe fails; the pass may enable FTP,    *)
(* once, and start again.                                                   *)
MayEnable == /\ ~ledger.ftp_enable_attempted
             /\ sweep.why \in {"handover", "budget", "leaked"}
             /\ \/ own[sweep.client] > 0
                \/ sweep.why = "handover" /\ Required

EnableFTP ==
    /\ sweep.phase = "list"
    /\ MayEnable
    /\ ledger' = [ledger EXCEPT !.ftp_enable_attempted = TRUE]
    /\ UNCHANGED <<own, resv, armed, lock, sweep, files>>

SweepFail ==
    /\ sweep.phase = "list"
    /\ GoesOn([ledger EXCEPT
                !.blocked = @ \/ sweep.why # "inherited",
                !.ftp_enable_attempted = @ \/ MayEnable], own, resv)
    /\ UNCHANGED <<armed, files>>

-----------------------------------------------------------------------------
(* The request: each body it sends becomes a file as it streams in, a mount *)
(* keeps the file open.  The request layer reports a body as sent once it   *)
(* was tried; a probe of several bodies may not try them all.               *)

Land(t) == /\ Sending(t) /\ resv[t].landed < resv[t].count
           /\ Len(files) < MaxFiles             \* bound
           /\ files' = Append(files, [by |-> t, mounted |-> FALSE])
           /\ resv' = [resv EXCEPT ![t].landed = @ + 1]
           /\ UNCHANGED <<ledger, own, armed, lock, sweep>>

Mount(t) == /\ Sending(t) /\ resv[t].count = 1
            /\ \E i \in DOMAIN files :
                /\ files[i].by = t
                /\ files' = [j \in DOMAIN files |->
                                [files[j] EXCEPT !.mounted = (j = i)]]
            /\ UNCHANGED <<ledger, own, resv, armed, lock, sweep>>

(* _end_temp_reservation()                                                  *)
End(t, sent) ==
    LET c == ClientOf[t]
        unsent == resv[t].count - sent
    IN  /\ Free /\ Sending(t)
        /\ sent \in resv[t].landed .. resv[t].count
        /\ resv[t].count = 1 => sent = 1
        /\ ledger' = Ended(ledger, resv[t].count, resv[t].armed, unsent)
        /\ own' = IF resv[t].current
                  THEN [own EXCEPT ![c] = AtLeastZero(@ - unsent)] ELSE own
        /\ resv' = [resv EXCEPT ![t] = NoResv]
        /\ files' = [i \in DOMAIN files |->
                        IF files[i].by = t
                        THEN [files[i] EXCEPT
                                !.by = IF resv[t].armed
                                       THEN "armed" ELSE "disarmed"]
                        ELSE files[i]]
        /\ UNCHANGED <<armed, lock, sweep>>

-----------------------------------------------------------------------------
(* The device lock, its release callback, and close()                       *)

Acquire == /\ lock = "off"
           /\ lock' = "held"
           /\ ledger' = [ledger EXCEPT !.swept = FALSE]
           /\ UNCHANGED <<own, resv, armed, sweep, files>>

(* _drain_temp_attachments() of an armed client that holds the lock.        *)
Drain(c) == IF own[c] > 0 THEN StartSweep("leaked", c, NoThread, 0)
                          ELSE StartSweep("inherited", c, NoThread, 0)

(* drain_on_lock_release(): the armed client with a leak of its own before  *)
(* the others; the ledger itself if there is none; or nothing to do.        *)
Release ==
    LET leaked == {c \in armed : own[c] > 0}
    IN  /\ lock = "held" /\ Free
        /\ \/ /\ \E c \in IF leaked # {} THEN leaked ELSE armed : Drain(c)
              /\ lock' = "draining"
           \/ /\ armed = {} /\ ledger.pending > 0 /\ ledger.armed_pending
              /\ StartSweep("orphan", NoClient, NoThread, 0)
              /\ lock' = "draining"
           \/ /\ armed = {} /\ ~(ledger.pending > 0 /\ ledger.armed_pending)
              /\ lock' = "drained"
              /\ UNCHANGED sweep
        /\ UNCHANGED <<ledger, own, resv, armed, files>>

(* The release goes on: nothing waits for a pass that another thread began  *)
(* since the callbacks.                                                     *)
Unlock == /\ lock = "drained"
          /\ lock' = "off"
          /\ UNCHANGED <<ledger, own, resv, armed, sweep, files>>

Close(c) == /\ Free
            /\ c \in armed
            /\ Held
            /\ Drain(c)
            /\ UNCHANGED <<ledger, own, resv, armed, lock, files>>

(* A client is garbage-collected and a new one takes its place; one whose   *)
(* first probe went unanswered is graded by a later one.  A client that has *)
(* leaked nothing and is not armed counts for nothing until it is used.     *)
Replace(c) == /\ Free
              /\ \A t \in Threads : ClientOf[t] = c => ~Sending(t)
              /\ armed' \in {armed \ {c}, armed \cup {c}}
              /\ own' = [own EXCEPT ![c] = 0]
              /\ UNCHANGED <<ledger, resv, lock, sweep, files>>

Reprobe(c) == /\ c \notin armed
              /\ armed' = armed \cup {c}
              /\ UNCHANGED <<ledger, own, resv, lock, sweep, files>>

(* Another lane has the device and leaves a file behind.                    *)
OtherLane == /\ lock = "off"
             /\ Len(files) < MaxFiles           \* bound
             /\ files' = Append(files, [by |-> "other", mounted |-> FALSE])
             /\ UNCHANGED <<ledger, own, resv, armed, lock, sweep>>

Next == \/ \E t \in Threads :
             \/ \E n \in Costs[t] : Upload(t, n) \/ UploadSweeps(t, n)
             \/ Land(t) \/ Mount(t)
             \/ \E sent \in 0 .. resv[t].count : End(t, sent)
        \/ SweepList \/ SweepDelete \/ EnableFTP \/ SweepFail
        \/ Acquire \/ Release \/ Unlock
        \/ \E c \in Clients : Close(c) \/ Replace(c) \/ Reprobe(c)
        \/ OtherLane

Spec == Init /\ [][Next]_vars

-----------------------------------------------------------------------------
(* Properties                                                               *)

(* The sum of f over the finite set S, as the size of a set of cells.       *)
Cells(f, S) == UNION {{x} \X (1 .. f[x]) : x \in S}
Total(f, S) == Cardinality(Cells(f, S))

Open(r) == [t \in Threads |-> r[t].count]
ArmedIn(r) == {t \in Threads : r[t].armed}
StaleIn(r) == {t \in Threads : ~r[t].current}
CurrentOf(c, r) == {t \in Threads : ClientOf[t] = c /\ r[t].current}

InFlight(S) == Total(Open(resv), S)
ArmedThreads == ArmedIn(resv)
Files(S) == {i \in DOMAIN files : files[i].by \in S}

(* The in-flight fields are the sums of the open reservations; a client's   *)
(* own share has room for its requests, and the device's count for every    *)
(* share and for the requests a sweep took from them.  So the clamps at     *)
(* zero in end_reservation() never have to mend anything.                   *)
Books(l, o, r) ==
    /\ l.in_flight = Total(Open(r), Threads)
    /\ l.in_flight_armed = Total(Open(r), ArmedIn(r))
    /\ \A c \in Clients : Total(Open(r), CurrentOf(c, r)) <= o[c]
    /\ Total(o, Clients) + Total(Open(r), StaleIn(r)) <= l.pending

(* The device's count never misses an attachment: the books are right, and  *)
(* what was uploaded since the last sweep and what an open reservation may  *)
(* still send is counted, whatever sweeps ran between a reservation and its *)
(* send or its end (collected(): "Not a reset to zero").                    *)
NeverUndercounts ==
    /\ Books(ledger, own, resv)
    /\ Cardinality(Files({"armed", "disarmed"})) + InFlight(Threads)
            <= ledger.pending

(* If any attachment counted by an armed client is uncollected, the ledger  *)
(* remembers so, and a release finds it when every client that leaked is    *)
(* gone (armed_pending).                                                    *)
OrphansRemembered ==
    Files({"armed"}) # {} \/ InFlight(ArmedThreads) > 0
        => ledger.armed_pending

(* An armed client never spends an attachment on a device that holds what   *)
(* another lane left since a sweep of this process ended ("a sweep at every *)
(* handover, failing closed").                                              *)
Spending(t) == ~Sending(t) /\ Sending(t)' /\ ClientOf[t] \in armed /\ Required

NoSpendOnUnswept ==
    [][\A t \in Threads : Spending(t) => Files({"other"})' = {}]_vars

(* Why that is so: while the lock is held, swept tells that no file of      *)
(* another lane's is left, and a gate's pass is one whose failure blocks.   *)
SweptIsClean == ledger.swept /\ Held => Files({"other"}) = {}

GatesBlock == sweep.thread # NoThread => sweep.why \in {"handover", "budget"}

GateInv == TypeOK /\ SweptIsClean /\ GatesBlock

(* A sweep never deletes a file in use: the one a request is still being    *)
(* sent into, or a mounted image, unless more uploads than the keep-count   *)
(* allows for have come and gone while that request was being sent.         *)
InUse(i) == \/ files[i].mounted
            \/ /\ files[i].by \in Threads
               /\ \A j \in DOMAIN files : j > i => files[j].by # files[i].by

Overtaken(i) == Cardinality({j \in DOMAIN files :
                    j > i /\ files[j].by \notin Threads}) > DEFAULT_KEEP

SparesUnlessOvertaken ==
    sweep.phase = "delete" =>
        \A i \in sweep.doomed : InUse(i) => Overtaken(i)

(* The strengthening that makes the three inductive: a file belongs to a    *)
(* reservation that is open and that has sent it, and only the thread whose *)
(* request has not begun waits for a pass.                                  *)
Landings == \A t \in Threads : /\ resv[t].landed <= resv[t].count
                               /\ Cardinality(Files({t})) <= resv[t].landed

GateWaits == /\ Free => sweep.thread = NoThread
             /\ sweep.thread # NoThread => ~Sending(sweep.thread)

DoomedListed == sweep.phase = "delete" => sweep.doomed \subseteq DOMAIN files

CountInv == /\ NeverUndercounts /\ OrphansRemembered /\ SparesUnlessOvertaken
            /\ Landings /\ GateWaits /\ DoomedListed

=============================================================================
